---- MODULE Spec2Model ----
(***************************************************************************)
(* A model of mindb: an embedded key-value store that appends typed        *)
(* records to segmented logs (one family of segment files per data kind)   *)
(* and keeps an in-memory index per kind.                                   *)
(*                                                                         *)
(* Byte strings (keys, values, extras) are sequences of one-character      *)
(* strings, so that lengths and record sizes are the ones the code         *)
(* computes.  A segment file is the sequence of the records written to it; *)
(* the offset of a record is the sum of the sizes of the records before it.*)
(***************************************************************************)
EXTENDS Integers, Sequences, FiniteSets, TLC

VARIABLES
    config,         \* Config: IdxMode, RwMethod, BlockSize, ReclaimThreshold, ...
    disk,           \* data directory: disk[t][id] = records of segment id of kind t
    metaFile,       \* db.meta in the data directory
    expFile,        \* db.expires in the data directory
    activeFile,     \* db.activeFile: kind -> handle [Id, Offset]
    activeFileIds,  \* db.activeFileIds: kind -> id
    archFiles,      \* db.archFiles: kind -> (id -> handle)
    meta,           \* db.meta.ActiveWriteOff: kind -> offset (partial map)
    strIndex,       \* db.strIndex.idxList: key -> Indexer
    listIndex,      \* db.listIndex: key -> sequence of values
    setIndex,       \* db.setIndex.indexes: key -> set of members
    expires,        \* db.expires: key -> deadline
    now,            \* time.Now().Unix()
    status,         \* "open", or "hung" when a call never returns
    last,           \* the last public call and what it returned
    lastSet,        \* history: key -> value of the latest successful Set not followed by StrRem
    inWindow,       \* history: key -> no Close, Reclaim or expiry since that Set
    snap,           \* history: what reads returned before the last Reclaim, or None
    limit,          \* bound of the model: segment ids of a kind stay below limit
    pc,             \* per thread: position inside a public call
    arg,            \* per thread: arguments and locals of the call in progress
    mu,             \* db.mu: [writer, readers]
    setMu,          \* db.setIndex.mu: holder or NoThread
    dbFile,         \* a storage.DBFile at byte level: [method, bytes, Offset]
    io,             \* the last Write or Read on dbFile and what it returned
    twin,           \* a second engine given the same calls, or None
    skipList        \* an index.SkipList at pointer level, or None

engineVars == <<config, disk, metaFile, expFile, activeFile, activeFileIds,
                archFiles, meta, strIndex, listIndex, setIndex, expires, now, status>>
histVars == <<last, lastSet, inWindow, snap, limit>>
threadVars == <<pc, arg, mu, setMu>>
codecVars == <<dbFile, io>>
vars == <<engineVars, histVars, threadVars, codecVars, twin, skipList>>

-----------------------------------------------------------------------------
(* Bounds of the model *)

MaxFiles == 3           \* segment ids of one kind run from 0 to MaxFiles - 1
MaxReclaimFiles == 4    \* the same, where Reclaim is called
MaxTime == 2            \* the clock runs from 0 to MaxTime
SmallBlock == 30        \* BlockSize holding one record per segment
MetaBlock == 110        \* BlockSize under which write offsets reach three digits
MaxMetaFiles == 2       \* segment ids of one kind under MetaBlock
MaxKindFiles == 2       \* segment ids of one kind when three kinds are written
MaxConcFiles == 3       \* segment ids of one kind when two threads call
CodecBlock == 48        \* capacity in bytes of the segment used at byte level
MaxCodecRecords == 2    \* records written to that segment
MaxScanFiles == 3       \* segment ids of the String kind when scans are called
PairBlock == 50         \* BlockSize holding two records per segment
MaxReplayFiles == 3     \* segment ids of a kind when the replay order is checked
MaxReclaimKindFiles == 3  \* segment ids of each kind when every kind is compacted
MaxCrashFiles == 3      \* segment ids of the String kind when Reclaim is interrupted
TinyBlock == 22         \* BlockSize one byte short of a record with a value of two bytes
MaxCapacityFiles == 3   \* segment ids of the String kind under TinyBlock

-----------------------------------------------------------------------------
(* Program constants *)

String == 0
List == 1
Hash == 2
SetType == 3
ZSet == 4
Kinds == {String, List, Hash, SetType, ZSet}

StringSet == 0
StringRem == 1
ListRPush == 1
ListLPop == 2
ListLInsert == 5
SetSAdd == 0
SetSRem == 1
SetSMove == 2

\* list.InsertOption
Before == 0
After == 1

\* The separator of the parts of a record's extra field: a backslash and a 0.
ExtraSeparator == <<"\\", "0">>

entryHeaderSize == 20
metaBaseLen == 23       \* length of {"active_write_off":{}}

KeyValueRamMode == "KeyValueRamMode"
KeyOnlyRamMode == "KeyOnlyRamMode"
FileIO == "FileIO"
MMap == "MMap"

None == "none"
NoThread == "nobody"

-----------------------------------------------------------------------------
(* Input domains *)

KeyA == <<"a">>
KeyB == <<"b">>
Keys == {KeyA, KeyB}
Val1 == <<"1">>
Val2 == <<"2">>
Vals == {Val1, Val2}
EmptyBytes == <<>>
LongBytes == <<"x", "x">>     \* longer than MaxKeySize and MaxValueSize

-----------------------------------------------------------------------------
(* storage/entry.go *)

NewEntry(key, value, extra, t, mark) ==
    [Type |-> t, Mark |-> mark, Key |-> key, Value |-> value, Extra |-> extra]

NewEntryNoExtra(key, value, t, mark) == NewEntry(key, value, EmptyBytes, t, mark)

Size(e) == entryHeaderSize + Len(e.Key) + Len(e.Value) + Len(e.Extra)

\* What Read decodes from a zero-filled region of a memory-mapped segment.
ZeroEntry == NewEntry(EmptyBytes, EmptyBytes, EmptyBytes, 0, 0)

-----------------------------------------------------------------------------
(* storage/db_file.go: a segment file *)

RECURSIVE FileLen(_)
FileLen(f) == IF f = <<>> THEN 0 ELSE Size(Head(f)) + FileLen(Tail(f))

\* Offset at which record i of f starts.
StartOf(f, i) == FileLen(SubSeq(f, 1, i - 1))

RecordAt(f, off) == {i \in 1..Len(f) : StartOf(f, i) = off}

\* DBFile.Read: header, key, value, extra, then the CRC of the value.
\* FileIO: ReadAt past the last record fails with io.EOF.
\* MMap: readBuf never fails; the zero-filled tail decodes to ZeroEntry,
\* whose CRC (of the empty value) matches the stored 0.
Read(method, f, off) ==
    IF RecordAt(f, off) # {}
    THEN [err |-> "nil", e |-> f[CHOOSE i \in RecordAt(f, off) : TRUE]]
    ELSE IF method = FileIO
         THEN [err |-> IF off >= FileLen(f) THEN "EOF" ELSE "Misaligned", e |-> ZeroEntry]
         ELSE [err |-> "nil", e |-> ZeroEntry]

\* DBFile.Write at the handle's offset: WriteAt / copy into the mapping.
\* Appends when off is the end of the file; replaces the record at off when a
\* record of the same size starts there.  Any other overwrite leaves a
\* partly overwritten record behind and is marked by Misaligned below.
WriteAt(f, off, e) ==
    IF off >= FileLen(f) THEN Append(f, e)
    ELSE LET i == CHOOSE j \in 1..Len(f) : StartOf(f, j) <= off /\ off < StartOf(f, j + 1)
         IN [f EXCEPT ![i] = e]

Misaligned(f, off, e) ==
    /\ off < FileLen(f)
    /\ \A i \in 1..Len(f) : ~(StartOf(f, i) = off /\ Size(f[i]) = Size(e))

-----------------------------------------------------------------------------
(* Partial maps *)

EmptyMap == <<>>

Put(f, k, v) == [x \in DOMAIN f \cup {k} |-> IF x = k THEN v ELSE f[x]]

Remove(f, k) == [x \in DOMAIN f \ {k} |-> f[x]]

Max(a, b) == IF a >= b THEN a ELSE b

MaxOf(S) == CHOOSE x \in S : \A y \in S : y <= x

MinOf(S) == CHOOSE x \in S : \A y \in S : x <= y

\* The ids in descending order.
RECURSIVE SortIntsDesc(_)
SortIntsDesc(S) == IF S = {} THEN <<>> ELSE <<MaxOf(S)>> \o SortIntsDesc(S \ {MaxOf(S)})

\* sort.Ints
RECURSIVE SortInts(_)
SortInts(S) == IF S = {} THEN <<>> ELSE <<MinOf(S)>> \o SortInts(S \ {MinOf(S)})

\* Every order in which a Go map with key set S can be ranged over.
Orders(S) == {s \in [1..Cardinality(S) -> S] : \A i, j \in 1..Cardinality(S) : s[i] = s[j] => i = j}

-----------------------------------------------------------------------------
(* storage/db_meta.go: db.meta holds the JSON text of ActiveWriteOff.  Store   *)
(* opens the file without O_TRUNC and writes the text at offset 0, so the     *)
(* file keeps the tail of a longer text written before.  metaFile.text is the *)
(* text last written and metaFile.fileLen the length of the file.             *)

Digits(n) == IF n < 10 THEN 1 ELSE IF n < 100 THEN 2 ELSE IF n < 1000 THEN 3 ELSE 4

RECURSIVE EntriesLen(_, _)
EntriesLen(m, S) ==
    IF S = {} THEN 0
    ELSE LET t == CHOOSE x \in S : TRUE
         IN 4 + Digits(m[t]) + EntriesLen(m, S \ {t})

\* len(json.Marshal(m)): {"active_write_off":{"0":44,"3":22}}
JSONLen(m) ==
    metaBaseLen + EntriesLen(m, DOMAIN m)
        + (IF DOMAIN m = {} THEN 0 ELSE Cardinality(DOMAIN m) - 1)

NoMetaFile == [text |-> EmptyMap, fileLen |-> 0]

\* DBMeta.Store
MetaStore(mf, m) == [text |-> m, fileLen |-> Max(mf.fileLen, JSONLen(m))]

\* LoadMeta: json.Unmarshal rejects a text followed by more bytes, and Open
\* ignores the error and keeps the empty map.
LoadMeta(mf) == IF mf.fileLen = JSONLen(mf.text) THEN mf.text ELSE EmptyMap

-----------------------------------------------------------------------------
(* Expiry table file db.expires: a sequence of {key_size, deadline, key}      *)
(* entries.  Every key of the table has the same length here, so entries are  *)
(* aligned.  SaveExpires writes the entries from offset 0 in map order and    *)
(* does not truncate the file.                                                *)

SaveExpires(ef, exp, order) ==
    [i \in 1..Max(Len(ef), Len(order)) |->
        IF i <= Len(order) THEN [key |-> order[i], deadline |-> exp[order[i]]] ELSE ef[i]]

RECURSIVE LoadExpiresFrom(_, _)
LoadExpiresFrom(ef, exp) ==
    IF ef = <<>> THEN exp
    ELSE LoadExpiresFrom(Tail(ef), Put(exp, Head(ef).key, Head(ef).deadline))

LoadExpires(ef) == LoadExpiresFrom(ef, EmptyMap)

Expired(exp, key, t) == key \in DOMAIN exp /\ exp[key] <= t

-----------------------------------------------------------------------------
(* The engine as a value: the fields of MinDB together with the files of the  *)
(* data directory.  Operations are functions from one such value to the next. *)

DB ==
    [config |-> config, disk |-> disk, metaFile |-> metaFile, expFile |-> expFile,
     activeFile |-> activeFile, activeFileIds |-> activeFileIds,
     archFiles |-> archFiles, meta |-> meta, strIndex |-> strIndex,
     listIndex |-> listIndex, setIndex |-> setIndex, expires |-> expires]

\* The next state holds the engine value d.
Becomes(d) ==
    /\ config' = d.config
    /\ disk' = d.disk
    /\ metaFile' = d.metaFile
    /\ expFile' = d.expFile
    /\ activeFile' = d.activeFile
    /\ activeFileIds' = d.activeFileIds
    /\ archFiles' = d.archFiles
    /\ meta' = d.meta
    /\ strIndex' = d.strIndex
    /\ listIndex' = d.listIndex
    /\ setIndex' = d.setIndex
    /\ expires' = d.expires

\* The initial state holds the engine value d.
Starts(d) ==
    /\ config = d.config
    /\ disk = d.disk
    /\ metaFile = d.metaFile
    /\ expFile = d.expFile
    /\ activeFile = d.activeFile
    /\ activeFileIds = d.activeFileIds
    /\ archFiles = d.archFiles
    /\ meta = d.meta
    /\ strIndex = d.strIndex
    /\ listIndex = d.listIndex
    /\ setIndex = d.setIndex
    /\ expires = d.expires

\* storage.NewDBFile: O_CREATE without truncation of an existing file.
NewDBFile(files, id) == IF id \in DOMAIN files THEN files ELSE Put(files, id, <<>>)

Handle(id, off) == [Id |-> id, Offset |-> off]

\* The engine value d on a disk whose writes fail (WriteAt returns an error).
Failing(d) == [fault |-> TRUE] @@ d

WriteFails(d) == "fault" \in DOMAIN d

\* store with a rotation that opens the new segment at the write offset of
\* the segment it archives.
storeKeepOffset(d, e) ==
    LET t == e.Type
        rotate == d.activeFile[t].Offset + Size(e) > d.config.BlockSize
        id == IF rotate THEN d.activeFileIds[t] + 1 ELSE d.activeFileIds[t]
        d1 == IF rotate
              THEN [d EXCEPT !.archFiles[t] = Put(@, d.activeFileIds[t], d.activeFile[t]),
                             !.disk[t] = NewDBFile(@, id),
                             !.activeFile[t] = Handle(id, d.activeFile[t].Offset),
                             !.activeFileIds[t] = id]
              ELSE d
        df == d1.activeFile[t]
        f == d1.disk[t][df.Id]
    IN IF Len(e.Key) = 0
       THEN [err |-> "ErrEmptyEntry", db |-> d1]
       ELSE [err |-> "nil",
             db |-> [d1 EXCEPT !.disk[t][df.Id] = WriteAt(f, df.Offset, e),
                               !.activeFile[t].Offset = df.Offset + Size(e),
                               !.meta = Put(@, t, df.Offset + Size(e))]]

\* store with a rotation that keeps the id of the segment it archives.
storeKeepId(d, e) ==
    LET t == e.Type
        rotate == d.activeFile[t].Offset + Size(e) > d.config.BlockSize
        id == d.activeFileIds[t]
        d1 == IF rotate
              THEN [d EXCEPT !.archFiles[t] = Put(@, d.activeFileIds[t], d.activeFile[t]),
                             !.disk[t] = NewDBFile(@, id),
                             !.activeFile[t] = Handle(id, 0),
                             !.meta = Put(@, t, 0)]
              ELSE d
        df == d1.activeFile[t]
        f == d1.disk[t][df.Id]
    IN IF Len(e.Key) = 0
       THEN [err |-> "ErrEmptyEntry", db |-> d1]
       ELSE IF Misaligned(f, df.Offset, e)
       THEN [err |-> "torn", db |-> d1]
       ELSE [err |-> "nil",
             db |-> [d1 EXCEPT !.disk[t][df.Id] = WriteAt(f, df.Offset, e),
                               !.activeFile[t].Offset = df.Offset + Size(e),
                               !.meta = Put(@, t, df.Offset + Size(e))]]

\* MinDB.store: rotate the active segment of the record's kind when the record
\* does not fit, append the record, publish the write offset.
store(d, e) ==
    LET t == e.Type
        rotate == d.activeFile[t].Offset + Size(e) > d.config.BlockSize
        id == IF rotate THEN d.activeFileIds[t] + 1 ELSE d.activeFileIds[t]
        d1 == IF rotate
              THEN [d EXCEPT !.archFiles[t] = Put(@, d.activeFileIds[t], d.activeFile[t]),
                             !.disk[t] = NewDBFile(@, id),
                             !.activeFile[t] = Handle(id, 0),
                             !.activeFileIds[t] = id,
                             !.meta = Put(@, t, 0)]
              ELSE d
        df == d1.activeFile[t]
        f == d1.disk[t][df.Id]
    IN IF Len(e.Key) = 0
       THEN [err |-> "ErrEmptyEntry", db |-> d1]
       ELSE IF WriteFails(d)
       THEN [err |-> "EIO", db |-> d1]
       ELSE IF Misaligned(f, df.Offset, e)
       THEN [err |-> "torn", db |-> d1]
       ELSE [err |-> "nil",
             db |-> [d1 EXCEPT !.disk[t][df.Id] = WriteAt(f, df.Offset, e),
                               !.activeFile[t].Offset = df.Offset + Size(e),
                               !.meta = Put(@, t, df.Offset + Size(e))]]

\* MinDB.checkKeyValue
checkKeyValue(cfg, key, values) ==
    IF Len(key) = 0 THEN "ErrEmptyKey"
    ELSE IF Len(key) > cfg.MaxKeySize THEN "ErrKeyTooLarge"
    ELSE IF \E i \in 1..Len(values) : Len(values[i]) > cfg.MaxValueSize THEN "ErrValueTooLarge"
    ELSE "nil"

-----------------------------------------------------------------------------
(* In-memory containers *)

\* ds/list: a list is created by its first push; pop of a missing or empty
\* list returns nil.
ListOf(l, key) == IF key \in DOMAIN l THEN l[key] ELSE <<>>

ListRPushDs(l, key, v) == Put(l, key, Append(ListOf(l, key), v))

ListLPopDs(l, key) == IF ListOf(l, key) = <<>> THEN l ELSE Put(l, key, Tail(l[key]))

\* list.find and list.LInsert: the value goes before or after the first
\* element equal to the pivot; -1 when there is none; with an option that is
\* neither Before nor After the list is left as it is.
ListLInsertDs(l, key, option, pivot, val) ==
    LET lst == ListOf(l, key)
        hits == {i \in 1..Len(lst) : lst[i] = pivot}
        at == MinOf(hits)
        new == IF option = Before
               THEN SubSeq(lst, 1, at - 1) \o <<val>> \o SubSeq(lst, at, Len(lst))
               ELSE IF option = After
               THEN SubSeq(lst, 1, at) \o <<val>> \o SubSeq(lst, at + 1, Len(lst))
               ELSE lst
    IN IF hits = {} THEN [res |-> -1, l |-> l]
       ELSE [res |-> Len(new), l |-> Put(l, key, new)]

\* strings.Index: the position of the first occurrence of sep in s, 0 for none.
Index(s, sep) ==
    LET at == {i \in 1..(Len(s) - Len(sep) + 1) : SubSeq(s, i, i + Len(sep) - 1) = sep}
    IN IF at = {} THEN 0 ELSE MinOf(at)

\* strings.Contains
Contains(s, sep) == Index(s, sep) # 0

\* strings.Split with a non-empty separator
RECURSIVE Split(_, _)
Split(s, sep) ==
    LET i == Index(s, sep)
    IN IF i = 0 THEN <<s>>
       ELSE <<SubSeq(s, 1, i - 1)>> \o Split(SubSeq(s, i + Len(sep), Len(s)), sep)

DigitChars == <<"0", "1", "2", "3", "4", "5", "6", "7", "8", "9">>

\* strconv.Itoa of a number that is not negative
RECURSIVE Itoa(_)
Itoa(n) ==
    IF n < 10 THEN <<DigitChars[n + 1]>>
    ELSE Itoa(n \div 10) \o <<DigitChars[(n % 10) + 1]>>

\* The value of a string of decimal digits.
RECURSIVE DigitsValue(_)
DigitsValue(s) ==
    IF s = <<>> THEN 0
    ELSE 10 * DigitsValue(SubSeq(s, 1, Len(s) - 1))
           + (CHOOSE d \in 0..9 : DigitChars[d + 1] = s[Len(s)])

\* strconv.Atoi: an optional sign followed by at least one decimal digit.
Atoi(s) ==
    LET signed == s # <<>> /\ s[1] \in {"+", "-"}
        body == IF signed THEN Tail(s) ELSE s
        ok == body # <<>> /\ \A i \in 1..Len(body) : \E d \in 1..10 : DigitChars[d] = body[i]
    IN IF ~ok THEN [err |-> "ErrSyntax", n |-> 0]
       ELSE [err |-> "nil",
             n |-> IF signed /\ s[1] = "-" THEN 0 - DigitsValue(body) ELSE DigitsValue(body)]

\* ds/set
SetOf(s, key) == IF key \in DOMAIN s THEN s[key] ELSE {}

SIsMemberDs(s, key, m) == m \in SetOf(s, key)

SAddDs(s, key, m) == Put(s, key, SetOf(s, key) \cup {m})

SRemDs(s, key, m) == IF SIsMemberDs(s, key, m) THEN Put(s, key, s[key] \ {m}) ELSE s

SMoveDs(s, src, dst, m) ==
    IF SIsMemberDs(s, src, m) THEN SAddDs(Put(s, src, s[src] \ {m}), dst, m) ELSE s

-----------------------------------------------------------------------------
(* Index construction (idx.go) *)

Indexer(e, fileId, offset) ==
    [Key |-> e.Key, Value |-> e.Value, ValueSize |-> Len(e.Value), Extra |-> e.Extra,
     FileId |-> fileId, EntrySize |-> Size(e), Offset |-> offset]

\* The Indexer built by the write path: Meta holds the key only.
KeyIndexer(e, fileId, offset) ==
    [Key |-> e.Key, Value |-> EmptyBytes, ValueSize |-> 0, Extra |-> EmptyBytes,
     FileId |-> fileId, EntrySize |-> Size(e), Offset |-> offset]

buildStringIndex(d, idx, opt, t) ==
    IF Expired(d.expires, idx.Key, t) THEN d
    ELSE IF opt = StringSet THEN [d EXCEPT !.strIndex = Put(@, idx.Key, idx)]
    ELSE IF opt = StringRem THEN [d EXCEPT !.strIndex = Remove(@, idx.Key)]
    ELSE d

\* The ListLInsert case of buildListIndex with the pivot taken as the text
\* after the separator.
buildListInsertSwapped(d, idx) ==
    LET s == Split(idx.Extra, ExtraSeparator)
        opt == IF Len(s) = 2 THEN Atoi(s[2]) ELSE [err |-> "none", n |-> 0]
    IN IF Len(s) = 2 /\ opt.err = "nil"
       THEN [d EXCEPT !.listIndex =
                ListLInsertDs(@, idx.Key, opt.n % 256, s[2], idx.Value).l]
       ELSE d

\* The ListLInsert case of buildListIndex: extra is split at the separator
\* into the pivot and the option.
buildListInsert(d, idx) ==
    LET s == Split(idx.Extra, ExtraSeparator)
        opt == IF Len(s) = 2 THEN Atoi(s[2]) ELSE [err |-> "none", n |-> 0]
    IN IF Len(s) = 2 /\ opt.err = "nil"
       THEN [d EXCEPT !.listIndex =
                ListLInsertDs(@, idx.Key, opt.n % 256, s[1], idx.Value).l]
       ELSE d

buildListIndex(d, idx, opt) ==
    IF opt = ListRPush THEN [d EXCEPT !.listIndex = ListRPushDs(@, idx.Key, idx.Value)]
    ELSE IF opt = ListLPop THEN [d EXCEPT !.listIndex = ListLPopDs(@, idx.Key)]
    ELSE IF opt = ListLInsert THEN buildListInsert(d, idx)
    ELSE d

buildSetIndex(d, idx, opt) ==
    IF opt = SetSAdd THEN [d EXCEPT !.setIndex = SAddDs(@, idx.Key, idx.Value)]
    ELSE IF opt = SetSRem THEN [d EXCEPT !.setIndex = SRemDs(@, idx.Key, idx.Value)]
    ELSE IF opt = SetSMove THEN [d EXCEPT !.setIndex = SMoveDs(@, idx.Key, idx.Extra, idx.Value)]
    ELSE d

\* MinDB.buildIndex
buildIndex(d, e, idx, t) ==
    LET idx1 == IF d.config.IdxMode = KeyValueRamMode
                THEN [idx EXCEPT !.Value = e.Value, !.ValueSize = Len(e.Value)]
                ELSE idx
    IN IF e.Type = String THEN buildStringIndex(d, idx1, e.Mark, t)
       ELSE IF e.Type = List THEN buildListIndex(d, idx1, e.Mark)
       ELSE IF e.Type = SetType THEN buildSetIndex(d, idx1, e.Mark)
       ELSE d

-----------------------------------------------------------------------------
(* Recovery (idx.go loadIdxFromFiles), applied to the segments of each kind   *)

\* The inner loop: read segment fid of kind k from offset on.
RECURSIVE ScanFile(_, _, _, _, _)
ScanFile(d, k, fid, offset, t) ==
    IF offset > d.config.BlockSize THEN [err |-> "nil", db |-> d]
    ELSE LET r == Read(d.config.RwMethod, d.disk[k][fid], offset)
         IN IF r.err = "nil"
            THEN ScanFile(buildIndex(d, r.e, Indexer(r.e, fid, offset), t),
                          k, fid, offset + Size(r.e), t)
            ELSE IF r.err = "EOF" THEN [err |-> "nil", db |-> d]
            ELSE [err |-> r.err, db |-> d]

\* The outer loop over the sorted file ids.
RECURSIVE ScanFiles(_, _, _, _)
ScanFiles(d, k, fileIds, t) ==
    IF fileIds = <<>> THEN [err |-> "nil", db |-> d]
    ELSE LET r == ScanFile(d, k, Head(fileIds), 0, t)
         IN IF r.err = "nil" THEN ScanFiles(r.db, k, Tail(fileIds), t) ELSE r

RECURSIVE loadIdxFromFiles(_, _, _)
loadIdxFromFiles(d, kinds, t) ==
    IF kinds = <<>> THEN [err |-> "nil", db |-> d]
    ELSE LET k == Head(kinds)
             fileIds == SortInts(DOMAIN d.archFiles[k] \cup {d.activeFileIds[k]})
             r == ScanFiles(d, k, fileIds, t)
         IN IF r.err = "nil" THEN loadIdxFromFiles(r.db, Tail(kinds), t) ELSE r

-----------------------------------------------------------------------------
(* Open and Close (mindb.go) *)

\* storage.Build: the largest id of a kind is its active segment, the others
\* are archived and get fresh handles.
BuildActiveId(files) == IF DOMAIN files = {} THEN 0 ELSE MaxOf(DOMAIN files)

BuildArchFiles(files) ==
    [id \in DOMAIN files \ {BuildActiveId(files)} |-> Handle(id, 0)]

\* Open on the data directory (dsk, mf, ef) with configuration cfg at time t.
Open(cfg, dsk, mf, ef, t) ==
    LET ids == [k \in Kinds |-> BuildActiveId(dsk[k])]
        m == LoadMeta(mf)
        d == [config |-> cfg,
              disk |-> [k \in Kinds |-> NewDBFile(dsk[k], ids[k])],
              metaFile |-> mf,
              expFile |-> ef,
              activeFile |-> [k \in Kinds |->
                                Handle(ids[k], IF k \in DOMAIN m THEN m[k] ELSE 0)],
              activeFileIds |-> ids,
              archFiles |-> [k \in Kinds |-> BuildArchFiles(dsk[k])],
              meta |-> m,
              strIndex |-> EmptyMap,
              listIndex |-> EmptyMap,
              setIndex |-> EmptyMap,
              expires |-> LoadExpires(ef)]
    IN loadIdxFromFiles(d, SortInts(Kinds), t)

\* Close: saveConfig, saveMeta, SaveExpires with the table ranged in `order'.
Close(d, order) ==
    [d EXCEPT !.metaFile = MetaStore(@, d.meta),
              !.expFile = SaveExpires(@, d.expires, order)]

-----------------------------------------------------------------------------
(* String operations (db_str.go) *)

\* Set with the locator taken after the write offset has advanced.
SetOffsetAfterWrite(d, key, value, t) ==
    LET chk == checkKeyValue(d.config, key, <<value>>)
        e == NewEntryNoExtra(key, value, String, StringSet)
        r == store(d, e)
        idx == KeyIndexer(e, r.db.activeFileIds[String], r.db.activeFile[String].Offset)
    IN IF chk # "nil" THEN [err |-> chk, db |-> d]
       ELSE IF r.err # "nil" THEN r
       ELSE [err |-> "nil", db |-> buildIndex(r.db, e, idx, t)]

\* Set: checkKeyValue, store, then the index entry that locates the record.
Set(d, key, value, t) ==
    LET chk == checkKeyValue(d.config, key, <<value>>)
        e == NewEntryNoExtra(key, value, String, StringSet)
        r == store(d, e)
        idx == KeyIndexer(e, r.db.activeFileIds[String],
                          r.db.activeFile[String].Offset - Size(e))
    IN IF chk # "nil" THEN [err |-> chk, db |-> d]
       ELSE IF r.err # "nil" THEN r
       ELSE [err |-> "nil", db |-> buildIndex(r.db, e, idx, t)]

\* The part of Get that follows the index lookup: the value of the Indexer,
\* or the value of the record the Indexer locates.
GetRead(d, idx) ==
    IF d.config.IdxMode = KeyValueRamMode THEN [err |-> "nil", val |-> idx.Value]
    ELSE IF idx.FileId # d.activeFileIds[String] /\ idx.FileId \notin DOMAIN d.archFiles[String]
    THEN [err |-> "panic", val |-> EmptyBytes]       \* nil *DBFile
    ELSE LET df == IF idx.FileId # d.activeFileIds[String]
                   THEN d.archFiles[String][idx.FileId]
                   ELSE d.activeFile[String]
             r == Read(d.config.RwMethod, d.disk[String][df.Id], idx.Offset)
         IN IF r.err # "nil" THEN [err |-> r.err, val |-> EmptyBytes]
            ELSE [err |-> "nil", val |-> r.e.Value]

Get(d, key) ==
    IF Len(key) = 0 THEN [err |-> "ErrEmptyKey", val |-> EmptyBytes]
    ELSE IF key \notin DOMAIN d.strIndex THEN [err |-> "ErrKeyNotExist", val |-> EmptyBytes]
    ELSE GetRead(d, d.strIndex[key])

\* StrRem: the index entry is removed first, then the removal is logged.
StrRem(d, key) ==
    LET chk == checkKeyValue(d.config, key, <<EmptyBytes>>)
        d1 == [d EXCEPT !.strIndex = Remove(@, key)]
    IN IF chk # "nil" THEN [err |-> chk, db |-> d]
       ELSE IF key \in DOMAIN d.strIndex
       THEN store(d1, NewEntryNoExtra(key, EmptyBytes, String, StringRem))
       ELSE [err |-> "nil", db |-> d]

\* Expire: the deadline of the key is written into the expiry table.
Expire(d, key, seconds, t) == [d EXCEPT !.expires = Put(@, key, t + seconds)]

\* Persist: the deadline of the key is removed from the expiry table.
Persist(d, key) == [d EXCEPT !.expires = Remove(@, key)]

-----------------------------------------------------------------------------
(* Set and list operations (db_set.go, db_list.go), one member or value per   *)
(* call                                                                       *)

SAdd(d, key, m) ==
    LET chk == checkKeyValue(d.config, key, <<m>>)
        r == store(d, NewEntryNoExtra(key, m, SetType, SetSAdd))
    IN IF chk # "nil" THEN [err |-> chk, db |-> d]
       ELSE IF r.err # "nil" THEN r
       ELSE [err |-> "nil", db |-> [r.db EXCEPT !.setIndex = SAddDs(@, key, m)]]

\* SRem: the member leaves the set first, then the removal is logged.
SRem(d, key, m) ==
    LET chk == checkKeyValue(d.config, key, <<m>>)
        d1 == [d EXCEPT !.setIndex = SRemDs(@, key, m)]
    IN IF chk # "nil" THEN [err |-> chk, db |-> d]
       ELSE IF SIsMemberDs(d.setIndex, key, m)
       THEN store(d1, NewEntryNoExtra(key, m, SetType, SetSRem))
       ELSE [err |-> "nil", db |-> d]

\* SMove: no checkKeyValue; the member moves first, then the move is logged
\* with the destination as Extra.
SMove(d, src, dst, m) ==
    LET d1 == [d EXCEPT !.setIndex = SMoveDs(@, src, dst, m)]
    IN IF SIsMemberDs(d.setIndex, src, m)
       THEN store(d1, NewEntry(src, m, dst, SetType, SetSMove))
       ELSE [err |-> "nil", db |-> d]

RPush(d, key, v) ==
    LET chk == checkKeyValue(d.config, key, <<v>>)
        r == store(d, NewEntryNoExtra(key, v, List, ListRPush))
    IN IF chk # "nil" THEN [err |-> chk, db |-> d]
       ELSE IF r.err # "nil" THEN r
       ELSE [err |-> "nil", db |-> [r.db EXCEPT !.listIndex = ListRPushDs(@, key, v)]]

\* LInsert: checkKeyValue, the test of the pivot, then the list is changed
\* and, when the pivot was found, the record is stored.
LInsert(d, key, option, pivot, val) ==
    LET chk == checkKeyValue(d.config, key, <<val>>)
        ins == ListLInsertDs(d.listIndex, key, option, pivot, val)
        d1 == [d EXCEPT !.listIndex = ins.l]
        extra == pivot \o ExtraSeparator \o Itoa(option)
        r == store(d1, NewEntry(key, val, extra, List, ListLInsert))
    IN IF chk # "nil" THEN [err |-> chk, db |-> d]
       ELSE IF Contains(pivot, ExtraSeparator)
       THEN [err |-> "ErrExtraContainsSeparator", db |-> d]
       ELSE IF ins.res = -1 THEN [err |-> "nil", db |-> d]
       ELSE r

\* StrLen: the ValueSize of the key's locator, 0 when checkKeyValue fails or
\* the key is not in the index.
StrLen(d, key) ==
    IF checkKeyValue(d.config, key, <<>>) # "nil" THEN 0
    ELSE IF key \in DOMAIN d.strIndex THEN d.strIndex[key].ValueSize
    ELSE 0

\* LPop: no checkKeyValue; the value is popped first; an error of store is
\* logged and dropped, and the call returns (val, nil).
LPop(d, key) ==
    LET l == ListOf(d.listIndex, key)
        d1 == [d EXCEPT !.listIndex = ListLPopDs(@, key)]
    IN IF l = <<>> THEN [err |-> "nil", val |-> EmptyBytes, db |-> d]
       ELSE [err |-> "nil", val |-> Head(l),
             db |-> store(d1, NewEntryNoExtra(key, Head(l), List, ListLPop)).db]

-----------------------------------------------------------------------------
(* Reclaim (mindb.go) *)

\* LValExists: the list stored at key holds the value.
LValExists(d, key, value) ==
    \E i \in 1..Len(ListOf(d.listIndex, key)) : d.listIndex[key][i] = value

\* validEntry taking every record for a live one.
validEntryEvery(d, e, offset, fileId, t) == TRUE

\* validEntry that also keeps the records of removals.
validEntryKeepRem(d, e, offset, fileId, t) ==
    IF e.Type = String THEN e.Mark \in {StringSet, StringRem}
    ELSE IF e.Type = List THEN e.Mark \in {ListRPush, ListLPop}
    ELSE IF e.Type = SetType THEN e.Mark \in {SetSAdd, SetSRem, SetSMove}
    ELSE FALSE

\* MinDB.validEntry: is the record read at (fileId, offset) still live?
validEntry(d, e, offset, fileId, t) ==
    IF e.Type = String
    THEN /\ e.Mark = StringSet
         /\ ~Expired(d.expires, e.Key, t)
         /\ e.Key \in DOMAIN d.strIndex
         /\ d.strIndex[e.Key].FileId = fileId
         /\ d.strIndex[e.Key].Offset = offset
    ELSE IF e.Type = List
    THEN e.Mark = ListRPush /\ LValExists(d, e.Key, e.Value)
    ELSE IF e.Type = SetType
    THEN \/ e.Mark = SetSMove /\ SIsMemberDs(d.setIndex, e.Extra, e.Value)
         \/ e.Mark = SetSAdd /\ SIsMemberDs(d.setIndex, e.Key, e.Value)
    ELSE FALSE

\* The scan loop over one archived segment read with FileIO: the live
\* records, in file order.  The loop ends at io.EOF only.
RECURSIVE ScanLive(_, _, _, _, _)
ScanLive(d, f, fileId, offset, t) ==
    LET r == Read(FileIO, f, offset)
    IN IF r.err # "nil" THEN <<>>
       ELSE (IF validEntry(d, r.e, offset, fileId, t) THEN <<r.e>> ELSE <<>>)
              \o ScanLive(d, f, fileId, offset + Size(r.e), t)

\* RewriteEntry with the id of a new segment taken after the increment.
RewriteEntryIdAfter(acc, e) ==
    LET fresh == acc.df = -1 \/ Size(e) + acc.off > acc.db.config.BlockSize
        a1 == IF fresh
              THEN [acc EXCEPT !.files = Put(@, acc.fileId + 1, <<>>),
                               !.df = acc.fileId + 1,
                               !.off = 0,
                               !.fileId = acc.fileId + 1]
              ELSE acc
    IN [a1 EXCEPT !.files[a1.df] = Append(@, e), !.off = a1.off + Size(e)]

\* One pass of the rewrite loop.  acc holds the goroutine's locals: files (the
\* new segments), df (id of the segment being filled, -1 for nil), off (its
\* write offset), fileId, and db (the engine, whose String index is updated).
RewriteEntry(acc, e) ==
    LET fresh == acc.df = -1 \/ Size(e) + acc.off > acc.db.config.BlockSize
        a1 == IF fresh
              THEN [acc EXCEPT !.files = Put(@, acc.fileId, <<>>),
                               !.df = acc.fileId,
                               !.off = 0,
                               !.fileId = acc.fileId + 1]
              ELSE acc
        a2 == [a1 EXCEPT !.files[a1.df] = Append(@, e), !.off = a1.off + Size(e)]
    IN IF e.Type = String
       THEN [a2 EXCEPT !.db.strIndex[e.Key].Offset = a2.off - Size(e),
                       !.db.strIndex[e.Key].FileId = a2.fileId]
       ELSE a2

RECURSIVE RewriteEntries(_, _)
RewriteEntries(acc, entries) ==
    IF entries = <<>> THEN acc
    ELSE RewriteEntries(RewriteEntry(acc, Head(entries)), Tail(entries))

\* The archived segments of kind k, visited in `order'.
RECURSIVE ReclaimFiles(_, _, _, _)
ReclaimFiles(acc, k, order, t) ==
    IF order = <<>> THEN acc
    ELSE LET fid == acc.db.archFiles[k][Head(order)].Id
             live == ScanLive(acc.db, acc.db.disk[k][fid], fid, 0, t)
         IN ReclaimFiles(RewriteEntries(acc, live), k, Tail(order), t)

\* ReclaimKind without the test of the threshold.
ReclaimKindAlways(d, k, order, t) ==
    LET acc == ReclaimFiles([db |-> d, files |-> EmptyMap, df |-> -1, off |-> 0,
                             fileId |-> 0], k, order, t)
        kept == [id \in DOMAIN d.disk[k] \ DOMAIN d.archFiles[k] |-> d.disk[k][id]]
    IN [acc.db EXCEPT
           !.disk[k] = [id \in DOMAIN kept \cup DOMAIN acc.files |->
                           IF id \in DOMAIN acc.files THEN acc.files[id] ELSE kept[id]],
           !.archFiles[k] = [id \in DOMAIN acc.files |->
                               Handle(id, FileLen(acc.files[id]))]]

\* The goroutine of kind k, followed by the removal of the old archived
\* segments of k and the renaming of the new ones into the data directory.
ReclaimKind(d, k, order, t) ==
    IF Cardinality(DOMAIN d.archFiles[k]) < d.config.ReclaimThreshold THEN d
    ELSE LET acc == ReclaimFiles([db |-> d, files |-> EmptyMap, df |-> -1, off |-> 0,
                                  fileId |-> 0], k, order, t)
             kept == [id \in DOMAIN d.disk[k] \ DOMAIN d.archFiles[k] |-> d.disk[k][id]]
         IN [acc.db EXCEPT
                !.disk[k] = [id \in DOMAIN kept \cup DOMAIN acc.files |->
                                IF id \in DOMAIN acc.files THEN acc.files[id] ELSE kept[id]],
                !.archFiles[k] = [id \in DOMAIN acc.files |->
                                    Handle(id, FileLen(acc.files[id]))]]

RECURSIVE ReclaimKinds(_, _, _, _)
ReclaimKinds(d, kinds, orders, t) ==
    IF kinds = <<>> THEN d
    ELSE ReclaimKinds(ReclaimKind(d, Head(kinds), orders[Head(kinds) + 1], t),
                      Tail(kinds), orders, t)

\* The eligibility test with a strict comparison.
reclaimableAbove(d) ==
    \E k \in Kinds : Cardinality(DOMAIN d.archFiles[k]) > d.config.ReclaimThreshold

\* The eligibility test made before the lock is taken.
reclaimable(d) ==
    \E k \in Kinds : Cardinality(DOMAIN d.archFiles[k]) >= d.config.ReclaimThreshold

\* Reclaim.  Under MMap no read of a segment ever fails, so the scan loop of
\* the first qualifying kind never ends and the call never returns.
Reclaim(d, orders, t) ==
    IF ~reclaimable(d) THEN [err |-> "ErrReclaimUnreached", db |-> d]
    ELSE IF d.config.RwMethod = MMap THEN [err |-> "hung", db |-> d]
    ELSE [err |-> "nil", db |-> ReclaimKinds(d, SortInts(Kinds), orders, t)]

-----------------------------------------------------------------------------
(* The state machine: one caller at a time *)

Threads == {"t1", "t2"}

Config(idxMode, rwMethod, blockSize) ==
    [IdxMode |-> idxMode, RwMethod |-> rwMethod, BlockSize |-> blockSize,
     ReclaimThreshold |-> 2, MaxKeySize |-> 1, MaxValueSize |-> 1]

EmptyDir == [k \in Kinds |-> EmptyMap]

NoSnap == [valid |-> FALSE, view |-> <<>>]

\* A call: its name, key and value arguments, and the error and value returned.
Ret(op, key, value, err, val) ==
    [op |-> op, key |-> key, value |-> value, err |-> err, val |-> val]

\* No DBFile is under byte-level use.
NoDBFile == [method |-> None, bytes |-> <<>>, Offset |-> 0]

NoIO == [op |-> None]

\* The state after Open(cfg) on an empty directory.
OpenedWith(cfg, maxFiles, keys) ==
    /\ limit = maxFiles
    /\ Starts(Open(cfg, EmptyDir, NoMetaFile, <<>>, 0).db)
    /\ now = 0
    /\ status = "open"
    /\ last = Ret("Open", EmptyBytes, EmptyBytes, "nil", EmptyBytes)
    /\ lastSet = [k \in keys |-> EmptyBytes]
    /\ inWindow = [k \in keys |-> FALSE]
    /\ snap = NoSnap
    /\ pc = [th \in Threads |-> "idle"]
    /\ arg = [th \in Threads |-> None]
    /\ mu = [writer |-> NoThread, readers |-> {}]
    /\ setMu = NoThread

OpenedOn(cfg, maxFiles) == OpenedWith(cfg, maxFiles, Keys)

InitWith(cfg, maxFiles) ==
    /\ OpenedOn(cfg, maxFiles)
    /\ dbFile = NoDBFile
    /\ io = NoIO
    /\ twin = None
    /\ skipList = None

\* The engine is open and no call is in progress.  In the actions below the
\* result of an operation is bound once, as the only element of a set.
Idle == status = "open" /\ \A th \in Threads : pc[th] = "idle"

\* The model stops appending when a kind would need a segment id beyond its bound.
Within(d) == \A k \in Kinds : d.activeFileIds[k] < limit

\* History of a call on the String key k: a successful Set opens the window of
\* k unless the key's deadline has passed; any other call on k closes it.
Window(op, k, err, v) ==
    IF k \in DOMAIN lastSet
    THEN /\ lastSet' = IF op = "Set" /\ err = "nil" THEN [lastSet EXCEPT ![k] = v]
                       ELSE IF op = "StrRem" THEN [lastSet EXCEPT ![k] = EmptyBytes]
                       ELSE lastSet
         /\ inWindow' = [inWindow EXCEPT
                            ![k] = op = "Set" /\ err = "nil" /\ ~Expired(expires, k, now)]
    ELSE UNCHANGED <<lastSet, inWindow>>

\* What the reads of every kind return: Get for each key, the lists, the sets.
View(d) ==
    [str |-> [k \in Keys |-> Get(d, k)],
     list |-> [k \in Keys |-> ListOf(d.listIndex, k)],
     set |-> [k \in Keys |-> SetOf(d.setIndex, k)]]

CallSet(k, v) ==
    /\ Idle
    /\ \E r \in {Set(DB, k, v, now)} :
          /\ Within(r.db)
          /\ Becomes(r.db)
          /\ last' = Ret("Set", k, v, r.err, EmptyBytes)
          /\ Window("Set", k, r.err, v)
    /\ snap' = NoSnap
    /\ UNCHANGED <<now, status, limit, codecVars, twin, skipList, threadVars>>

CallGet(k) ==
    /\ Idle
    /\ \E r \in {Get(DB, k)} : last' = Ret("Get", k, EmptyBytes, r.err, r.val)
    /\ UNCHANGED <<engineVars, lastSet, inWindow, snap, limit, codecVars, twin, skipList, threadVars>>

CallStrRem(k) ==
    /\ Idle
    /\ \E r \in {StrRem(DB, k)} :
          /\ Within(r.db)
          /\ Becomes(r.db)
          /\ last' = Ret("StrRem", k, EmptyBytes, r.err, EmptyBytes)
          /\ Window("StrRem", k, r.err, EmptyBytes)
    /\ snap' = NoSnap
    /\ UNCHANGED <<now, status, limit, codecVars, twin, skipList, threadVars>>

CallExpire(k) ==
    /\ Idle
    /\ Becomes(Expire(DB, k, 1, now))
    /\ last' = Ret("Expire", k, EmptyBytes, "nil", EmptyBytes)
    /\ snap' = NoSnap
    /\ UNCHANGED <<now, status, lastSet, inWindow, limit, codecVars, twin, skipList, threadVars>>

\* The clock advances; the window of a key whose deadline passes closes.
Tick ==
    /\ Idle
    /\ now < MaxTime
    /\ now' = now + 1
    /\ inWindow' = [k \in Keys |-> inWindow[k] /\ ~Expired(expires, k, now + 1)]
    /\ UNCHANGED <<config, disk, metaFile, expFile, activeFile, activeFileIds, archFiles,
                   meta, strIndex, listIndex, setIndex, expires, status, last, lastSet,
                   snap, limit, codecVars, twin, skipList, threadVars>>

\* Reclaim with the archived segments of each kind ranged in some map order.
CallReclaim ==
    /\ Idle
    /\ \E os \in Orders(DOMAIN archFiles[String]), ol \in Orders(DOMAIN archFiles[List]),
          oh \in Orders(DOMAIN archFiles[Hash]), ot \in Orders(DOMAIN archFiles[SetType]),
          oz \in Orders(DOMAIN archFiles[ZSet]) :
          \E r \in {Reclaim(DB, <<os, ol, oh, ot, oz>>, now)} :
             /\ Becomes(r.db)
             /\ last' = Ret("Reclaim", EmptyBytes, EmptyBytes, r.err, EmptyBytes)
             /\ status' = IF r.err = "hung" THEN "hung" ELSE status
             /\ inWindow' = IF r.err = "ErrReclaimUnreached" THEN inWindow
                            ELSE [k \in DOMAIN inWindow |-> FALSE]
             /\ snap' = IF r.err = "nil" THEN [valid |-> TRUE, view |-> View(DB)] ELSE snap
    /\ UNCHANGED <<now, lastSet, limit, codecVars, twin, skipList, threadVars>>

\* Close followed by Open with the same configuration.
Restart ==
    /\ Idle
    /\ \E order \in Orders(DOMAIN expires) :
          \E c \in {Close(DB, order)} :
          \E r \in {Open(config, c.disk, c.metaFile, c.expFile, now)} :
             /\ Becomes(r.db)
             /\ status' = IF r.err = "nil" THEN "open" ELSE "failed"
             /\ last' = Ret("Restart", EmptyBytes, EmptyBytes, r.err, EmptyBytes)
    /\ inWindow' = [k \in DOMAIN inWindow |-> FALSE]
    /\ UNCHANGED <<now, lastSet, snap, limit, codecVars, twin, skipList, threadVars>>

Init ==
    \E idxMode \in {KeyValueRamMode, KeyOnlyRamMode}, rwMethod \in {FileIO, MMap} :
        InitWith(Config(idxMode, rwMethod, SmallBlock), MaxFiles)

-----------------------------------------------------------------------------
(* Spec: the String operations and the expiry table, under both index modes   *)
(* and both read/write methods, with one record per segment so that every     *)
(* second write rotates.                                                      *)

Next ==
    \/ \E k \in Keys, v \in Vals : CallSet(k, v)
    \/ \E k \in Keys : CallGet(k)
    \/ \E k \in Keys : CallStrRem(k)
    \/ \E k \in Keys : CallExpire(k)
    \/ Tick

Spec == Init /\ [][Next]_vars

\* C1: in both index modes, from a successful Set(k, v) until the next Set or
\* StrRem on k or the passing of k's deadline, Get(k) returns v, whatever is
\* written to other keys and however often the active segment rotates.
WriteReadConsistency ==
    \A k \in Keys : inWindow[k] => Get(DB, k) = [err |-> "nil", val |-> lastSet[k]]

\* A Get answered from an archived segment, in KeyOnlyRamMode, after two
\* rotations since the Set.
WriteReadWitness ==
    /\ config.IdxMode = KeyOnlyRamMode
    /\ last.op = "Get" /\ last.key = KeyA /\ last.err = "nil" /\ last.val = lastSet[KeyA]
    /\ inWindow[KeyA]
    /\ strIndex[KeyA].FileId + 2 = activeFileIds[String]

\* C8: a key whose deadline is at or before the current time is absent for
\* Get: the call returns ErrKeyNotExist and never the stored bytes.
TTLExpiry ==
    \A k \in Keys : Expired(expires, k, now) => Get(DB, k).err = "ErrKeyNotExist"

-----------------------------------------------------------------------------
(* SpecReclaim: String writes, Reclaim and restart                            *)

NextReclaim ==
    \/ \E k \in Keys, v \in Vals : CallSet(k, v)
    \/ \E k \in Keys : CallGet(k)
    \/ \E k \in Keys : CallStrRem(k)
    \/ CallReclaim
    \/ Restart

InitReclaim ==
    \E idxMode \in {KeyValueRamMode, KeyOnlyRamMode}, rwMethod \in {FileIO, MMap} :
        InitWith(Config(idxMode, rwMethod, SmallBlock), MaxReclaimFiles)

SpecReclaim == InitReclaim /\ [][NextReclaim]_vars

\* C10: Reclaim fails with ErrReclaimUnreached if and only if no kind has at
\* least ReclaimThreshold archived segments, and then the segments, the
\* archived maps and all indexes are as before the call.
ReclaimEligibility ==
    [][last'.op = "Reclaim" /\ CallReclaim =>
         LET unreached == \A k \in Kinds :
                             Cardinality(DOMAIN archFiles[k]) < config.ReclaimThreshold
         IN /\ (last'.err = "ErrReclaimUnreached") <=> unreached
            /\ unreached => UNCHANGED engineVars]_vars

\* Reclaim refused with one archived String segment, one short of the threshold.
ReclaimUnreachedWitness ==
    /\ last.op = "Reclaim" /\ last.err = "ErrReclaimUnreached"
    /\ Cardinality(DOMAIN archFiles[String]) = config.ReclaimThreshold - 1

\* C3: after a successful Reclaim every read returns what it returned
\* immediately before the Reclaim, in both index modes.
ReclaimPreservesReads ==
    [][last'.op = "Reclaim" /\ last'.err = "nil" /\ CallReclaim => View(DB)' = View(DB)]_vars

\* C4: a successful Reclaim followed by Close and reopen yields, for every
\* kind, the state there was before the Reclaim.
ReclaimRestartPreservesState ==
    last.op = "Restart" /\ snap.valid => View(DB) = snap.view

-----------------------------------------------------------------------------
(* SpecKinds: the String, set and list calls with valid and invalid           *)
(* arguments                                                                  *)

AnyKeys == {KeyA, KeyB, EmptyBytes, LongBytes}
AnyVals == {Val1, LongBytes}

\* A call of kind other than String: the result r of the operation becomes
\* the state.
Returns(op, k, v, r, val) ==
    /\ Within(r.db)
    /\ Becomes(r.db)
    /\ last' = Ret(op, k, v, r.err, val)
    /\ snap' = NoSnap
    /\ UNCHANGED <<now, status, lastSet, inWindow, limit, codecVars, twin, skipList, threadVars>>

CallSAdd(k, m) ==
    Idle /\ \E r \in {SAdd(DB, k, m)} : Returns("SAdd", k, m, r, EmptyBytes)

CallSRem(k, m) ==
    Idle /\ \E r \in {SRem(DB, k, m)} : Returns("SRem", k, m, r, EmptyBytes)

CallSMove(src, dst, m) ==
    Idle /\ \E r \in {SMove(DB, src, dst, m)} : Returns("SMove", src, m, r, EmptyBytes)

CallRPush(k, v) ==
    Idle /\ \E r \in {RPush(DB, k, v)} : Returns("RPush", k, v, r, EmptyBytes)

CallLPop(k) ==
    Idle /\ \E r \in {LPop(DB, k)} : Returns("LPop", k, EmptyBytes, r, r.val)

InitKinds == InitWith(Config(KeyOnlyRamMode, FileIO, SmallBlock), MaxKindFiles)

NextKinds ==
    \/ \E k \in AnyKeys, v \in AnyVals : CallSet(k, v)
    \/ \E k \in AnyKeys : CallStrRem(k)
    \/ \E k \in AnyKeys, v \in AnyVals : CallRPush(k, v)
    \/ \E k \in AnyKeys : CallLPop(k)
    \/ \E k \in AnyKeys, m \in AnyVals : CallSAdd(k, m)
    \/ \E k \in AnyKeys, m \in AnyVals : CallSRem(k, m)
    \/ \E src \in AnyKeys, dst \in AnyKeys, m \in AnyVals : CallSMove(src, dst, m)

SpecKinds == InitKinds /\ [][NextKinds]_vars

MutatingCalls == {"Set", "StrRem", "SAdd", "SRem", "SMove", "RPush", "LPop"}

\* C9: every mutating call rejects an empty key with ErrEmptyKey, a key longer
\* than MaxKeySize with ErrKeyTooLarge and a value longer than MaxValueSize
\* with ErrValueTooLarge, and then appends no record and changes no index.
InputValidation ==
    [][last'.op \in MutatingCalls =>
         LET c == last'
             want == checkKeyValue(config, c.key, <<c.value>>)
         IN want # "nil" => c.err = want /\ UNCHANGED engineVars]_vars

-----------------------------------------------------------------------------
(* SpecMeta: Set on one key and restarts, with five records per segment, so   *)
(* that the persisted write offset reaches three digits and falls back to two *)
(* after a rotation                                                           *)

InitMeta == InitWith(Config(KeyOnlyRamMode, FileIO, MetaBlock), MaxMetaFiles)

NextMeta ==
    \/ \E v \in Vals : CallSet(KeyA, v)
    \/ CallGet(KeyA)
    \/ Restart

SpecMeta == InitMeta /\ [][NextMeta]_vars

\* No write of the model tears a record: every overwrite replaces a whole
\* record of the same size.
NeverTorn == last.err # "torn"

\* Number of StringSet records of key k in the String segments.
RECURSIVE SetRecordsIn(_, _, _)
SetRecordsIn(files, ids, k) ==
    IF ids = {} THEN 0
    ELSE LET id == CHOOSE x \in ids : TRUE
         IN Cardinality({i \in 1..Len(files[id]) :
                            files[id][i].Key = k /\ files[id][i].Mark = StringSet})
              + SetRecordsIn(files, ids \ {id}, k)

SetRecords(k) == SetRecordsIn(disk[String], DOMAIN disk[String], k)

\* C5: after Set(k, a) followed by Set(k, b), Get(k) returns b, before a
\* restart and after Close and reopen, also when the records are in different
\* segments.
LastWriteWins ==
    \A k \in Keys :
        lastSet[k] # EmptyBytes /\ SetRecords(k) >= 2
            => Get(DB, k) = [err |-> "nil", val |-> lastSet[k]]

\* The view of the state in which expired String keys are absent.
Elided(d, t) ==
    [View(d) EXCEPT !.str = [k \in Keys |->
                                IF Expired(d.expires, k, t)
                                THEN [err |-> "ErrKeyNotExist", val |-> EmptyBytes]
                                ELSE Get(d, k)]]

\* C2: Close followed by Open of the same directory rebuilds the index state
\* there was before, except that expired String keys are absent.
RecoveryEquivalence ==
    [][last'.op = "Restart" /\ Restart => View(DB)' = Elided(DB, now)]_vars

-----------------------------------------------------------------------------
(* SpecConc: two threads calling Set, StrRem, Get, SAdd and Reclaim, one step *)
(* per lock operation and per piece of work between them.  db.mu is a         *)
(* reader/writer lock, db.setIndex.mu the lock of the set index.              *)

Open_ == status = "open"

CanLock == mu.writer = NoThread /\ mu.readers = {}

Lock(th) == mu' = [mu EXCEPT !.writer = th]

Unlock == mu' = [mu EXCEPT !.writer = NoThread]

Goto(th, label) == pc' = [pc EXCEPT ![th] = label]

\* The positions at which a thread is inside store, or inside Reclaim's
\* rewriting of the segments.
InStore == {"Set.store", "StrRem.store", "SAdd.store"}

Racing(th) == \E o \in Threads \ {th} : pc[o] \in InStore \cup {"Reclaim.run"}

\* A Get that has looked up key k and not yet read holds a pointer to the
\* Indexer it found.  unlinked(k) marks the pointers to the Indexer of k that
\* the index no longer holds.
Unlinked(k) ==
    [th \in Threads |->
        IF pc[th] \in {"Get.rlock", "Get.read"} /\ arg[th].key = k
        THEN [arg[th] EXCEPT !.linked = FALSE] ELSE arg[th]]

\* Set: checkKeyValue, db.mu.Lock()
SetBegin(th, k, v) ==
    /\ Open_ /\ pc[th] = "idle" /\ CanLock
    /\ Lock(th)
    /\ Goto(th, "Set.store")
    /\ arg' = [arg EXCEPT ![th] = [key |-> k, value |-> v]]
    /\ UNCHANGED <<engineVars, histVars, codecVars, twin, skipList, setMu>>

\* Two stores at once write db.meta.ActiveWriteOff, a Go map, without a common
\* lock: the runtime may stop the process (concurrent map writes).
MapRace(th) ==
    /\ Open_ /\ pc[th] \in InStore /\ Racing(th)
    /\ status' = "fatal"
    /\ UNCHANGED <<config, disk, metaFile, expFile, activeFile, activeFileIds, archFiles,
                   meta, strIndex, listIndex, setIndex, expires, now, histVars, codecVars, twin, skipList, threadVars>>

SetStore(th) ==
    /\ Open_ /\ pc[th] = "Set.store"
    /\ \E r \in {store(DB, NewEntryNoExtra(arg[th].key, arg[th].value, String, StringSet))} :
          /\ Within(r.db)
          /\ Becomes(r.db)
          /\ IF r.err = "nil"
             THEN /\ Goto(th, "Set.index")
                  /\ UNCHANGED <<last, mu>>
             ELSE /\ Goto(th, "idle")
                  /\ Unlock
                  /\ last' = Ret("Set", arg[th].key, arg[th].value, r.err, EmptyBytes)
    /\ UNCHANGED <<now, status, lastSet, inWindow, snap, limit, codecVars, twin, skipList, arg, setMu>>

SetIndex(th) ==
    /\ Open_ /\ pc[th] = "Set.index"
    /\ LET e == NewEntryNoExtra(arg[th].key, arg[th].value, String, StringSet)
           idx == KeyIndexer(e, activeFileIds[String], activeFile[String].Offset - Size(e))
       IN Becomes(buildIndex(DB, e, idx, now))
    /\ arg' = Unlinked(arg[th].key)
    /\ Unlock
    /\ Goto(th, "idle")
    /\ last' = Ret("Set", arg[th].key, arg[th].value, "nil", EmptyBytes)
    /\ UNCHANGED <<now, status, lastSet, inWindow, snap, limit, codecVars, twin, skipList, setMu>>

\* StrRem: checkKeyValue, db.mu.Lock()
StrRemBegin(th, k) ==
    /\ Open_ /\ pc[th] = "idle" /\ CanLock
    /\ Lock(th)
    /\ Goto(th, "StrRem.store")
    /\ arg' = [arg EXCEPT ![th] = [key |-> k]]
    /\ UNCHANGED <<engineVars, histVars, codecVars, twin, skipList, setMu>>

StrRemStore(th) ==
    /\ Open_ /\ pc[th] = "StrRem.store"
    /\ \E r \in {StrRem(DB, arg[th].key)} :
          /\ Within(r.db)
          /\ Becomes(r.db)
          /\ last' = Ret("StrRem", arg[th].key, EmptyBytes, r.err, EmptyBytes)
    /\ arg' = Unlinked(arg[th].key)
    /\ Unlock
    /\ Goto(th, "idle")
    /\ UNCHANGED <<now, status, lastSet, inWindow, snap, limit, codecVars, twin, skipList, setMu>>

\* SAdd: checkKeyValue, db.setIndex.mu.Lock(); db.mu is not taken.
SAddBegin(th, k, m) ==
    /\ Open_ /\ pc[th] = "idle" /\ setMu = NoThread
    /\ setMu' = th
    /\ Goto(th, "SAdd.store")
    /\ arg' = [arg EXCEPT ![th] = [key |-> k, value |-> m]]
    /\ UNCHANGED <<engineVars, histVars, codecVars, twin, skipList, mu>>

SAddStore(th) ==
    /\ Open_ /\ pc[th] = "SAdd.store"
    /\ \E r \in {store(DB, NewEntryNoExtra(arg[th].key, arg[th].value, SetType, SetSAdd))} :
          /\ Within(r.db)
          /\ Becomes(r.db)
          /\ IF r.err = "nil"
             THEN /\ Goto(th, "SAdd.index")
                  /\ UNCHANGED <<last, setMu>>
             ELSE /\ Goto(th, "idle")
                  /\ setMu' = NoThread
                  /\ last' = Ret("SAdd", arg[th].key, arg[th].value, r.err, EmptyBytes)
    /\ UNCHANGED <<now, status, lastSet, inWindow, snap, limit, codecVars, twin, skipList, arg, mu>>

SAddIndex(th) ==
    /\ Open_ /\ pc[th] = "SAdd.index"
    /\ Becomes([DB EXCEPT !.setIndex = SAddDs(@, arg[th].key, arg[th].value)])
    /\ setMu' = NoThread
    /\ Goto(th, "idle")
    /\ last' = Ret("SAdd", arg[th].key, arg[th].value, "nil", EmptyBytes)
    /\ UNCHANGED <<now, status, lastSet, inWindow, snap, limit, codecVars, twin, skipList, arg, mu>>

\* Get: the index lookup, made before db.mu.RLock().  The thread keeps the
\* pointer to the Indexer (idx), remembers what it held at the lookup
\* (looked), and whether the index still holds that Indexer (linked).
GetLookup(th, k) ==
    /\ Open_ /\ pc[th] = "idle"
    /\ IF k \notin DOMAIN strIndex
       THEN /\ last' = Ret("Get", k, EmptyBytes, "ErrKeyNotExist", EmptyBytes)
            /\ UNCHANGED <<pc, arg>>
       ELSE /\ Goto(th, "Get.rlock")
            /\ arg' = [arg EXCEPT ![th] = [key |-> k, idx |-> strIndex[k],
                                           looked |-> strIndex[k], linked |-> TRUE]]
            /\ UNCHANGED last
    /\ UNCHANGED <<engineVars, lastSet, inWindow, snap, limit, codecVars, twin, skipList, mu, setMu>>

GetRLock(th) ==
    /\ Open_ /\ pc[th] = "Get.rlock" /\ mu.writer = NoThread
    /\ mu' = [mu EXCEPT !.readers = @ \cup {th}]
    /\ Goto(th, "Get.read")
    /\ UNCHANGED <<engineVars, histVars, codecVars, twin, skipList, arg, setMu>>

\* The segment read at the locator the pointer leads to, and RUnlock.  A nil
\* *DBFile stops the process.
GetReadStep(th) ==
    /\ Open_ /\ pc[th] = "Get.read"
    /\ \E r \in {GetRead(DB, arg[th].idx)} :
          /\ last' = Ret("Get", arg[th].key, EmptyBytes, r.err, r.val)
          /\ status' = IF r.err = "panic" THEN "fatal" ELSE status
    /\ mu' = [mu EXCEPT !.readers = @ \ {th}]
    /\ Goto(th, "idle")
    /\ UNCHANGED <<config, disk, metaFile, expFile, activeFile, activeFileIds, archFiles,
                   meta, strIndex, listIndex, setIndex, expires, now,
                   lastSet, inWindow, snap, limit, codecVars, twin, skipList, arg, setMu>>

\* Reclaim: the eligibility test, made before the lock.
ReclaimBegin(th) ==
    /\ Open_ /\ pc[th] = "idle"
    /\ IF reclaimable(DB)
       THEN Goto(th, "Reclaim.lock") /\ UNCHANGED last
       ELSE /\ last' = Ret("Reclaim", EmptyBytes, EmptyBytes, "ErrReclaimUnreached", EmptyBytes)
            /\ UNCHANGED pc
    /\ UNCHANGED <<engineVars, lastSet, inWindow, snap, limit, codecVars, twin, skipList, arg, mu, setMu>>

ReclaimLock(th) ==
    /\ Open_ /\ pc[th] = "Reclaim.lock" /\ CanLock
    /\ Lock(th)
    /\ Goto(th, "Reclaim.run")
    /\ UNCHANGED <<engineVars, histVars, codecVars, twin, skipList, arg, setMu>>

\* The Indexers the index holds are rewritten in place: a pointer to one of
\* them sees the new locator.
Relocated(d) ==
    [th \in Threads |->
        IF pc[th] \in {"Get.rlock", "Get.read"} /\ arg[th].linked
        THEN [arg[th] EXCEPT !.idx = d.strIndex[arg[th].key]] ELSE arg[th]]

ReclaimRun(th) ==
    /\ Open_ /\ pc[th] = "Reclaim.run"
    /\ IF config.RwMethod = MMap
       THEN /\ status' = "hung"
            /\ UNCHANGED <<config, disk, metaFile, expFile, activeFile, activeFileIds,
                           archFiles, meta, strIndex, listIndex, setIndex, expires,
                           last, arg, mu, pc>>
       ELSE \E os \in Orders(DOMAIN archFiles[String]), ol \in Orders(DOMAIN archFiles[List]),
               oh \in Orders(DOMAIN archFiles[Hash]), ot \in Orders(DOMAIN archFiles[SetType]),
               oz \in Orders(DOMAIN archFiles[ZSet]) :
               \E d \in {ReclaimKinds(DB, SortInts(Kinds), <<os, ol, oh, ot, oz>>, now)} :
                  /\ Becomes(d)
                  /\ arg' = Relocated(d)
                  /\ last' = Ret("Reclaim", EmptyBytes, EmptyBytes, "nil", EmptyBytes)
                  /\ Unlock
                  /\ Goto(th, "idle")
                  /\ UNCHANGED status
    /\ UNCHANGED <<now, lastSet, inWindow, snap, limit, codecVars, twin, skipList, setMu>>

InitConc == InitWith(Config(KeyOnlyRamMode, FileIO, SmallBlock), MaxConcFiles)

NextConc ==
    \E th \in Threads :
        \/ \E v \in Vals : SetBegin(th, KeyA, v)
        \/ SetStore(th)
        \/ SetIndex(th)
        \/ StrRemBegin(th, KeyA)
        \/ StrRemStore(th)
        \/ SAddBegin(th, KeyA, Val1)
        \/ SAddStore(th)
        \/ SAddIndex(th)
        \/ MapRace(th)
        \/ GetLookup(th, KeyA)
        \/ GetRLock(th)
        \/ GetReadStep(th)
        \/ ReclaimBegin(th)
        \/ ReclaimLock(th)
        \/ ReclaimRun(th)

SpecConc == InitConc /\ [][NextConc]_vars

\* C6: at no time are two threads inside store, or one inside store and one
\* inside Reclaim's rewriting, together.
WriterMutualExclusion ==
    Cardinality({th \in Threads : pc[th] \in InStore \cup {"Reclaim.run"}}) <= 1

\* C7: when a Get reads the segment, the locator it looked up is still the
\* one the index holds for the key.
ReadSnapshotConsistency ==
    \A th \in Threads :
        pc[th] = "Get.read" =>
            /\ arg[th].key \in DOMAIN strIndex
            /\ strIndex[arg[th].key] = arg[th].looked

-----------------------------------------------------------------------------
(* Segment ids (checked under SpecKinds: writes of three kinds) *)

\* C11: a write changes the active segment id of a kind only by a rotation,
\* which archives the segment and makes the id exactly one greater; the id
\* never decreases.
SegmentMonotonicity ==
    [][\A k \in Kinds :
          IF DOMAIN archFiles'[k] # DOMAIN archFiles[k]
          THEN /\ activeFileIds'[k] = activeFileIds[k] + 1
               /\ DOMAIN archFiles'[k] = DOMAIN archFiles[k] \cup {activeFileIds[k]}
               /\ activeFile'[k] = Handle(activeFileIds[k] + 1, activeFile'[k].Offset)
          ELSE activeFileIds'[k] = activeFileIds[k]]_vars

\* A set write has rotated the Set segment.
SegmentRotatedWitness ==
    /\ last.op = "SAdd" /\ last.err = "nil"
    /\ activeFileIds[SetType] = 1
    /\ 0 \in DOMAIN archFiles[SetType]

-----------------------------------------------------------------------------
(* The record codec at byte level (storage/entry.go, storage/db_file.go).     *)
(* A byte is a number in 0..255, a file a sequence of bytes.                  *)

\* binary.BigEndian.PutUint32 / Uint32 / PutUint16 / Uint16
PutUint32(n) == <<(n \div 16777216) % 256, (n \div 65536) % 256, (n \div 256) % 256, n % 256>>

Uint32(b) == b[1] * 16777216 + b[2] * 65536 + b[3] * 256 + b[4]

PutUint16(n) == <<(n \div 256) % 256, n % 256>>

Uint16(b) == b[1] * 256 + b[2]

\* A 32-bit word as its bits, least significant first.
Bits8(b) == [i \in 1..8 |-> (b \div (2 ^ (i - 1))) % 2]

XorBits(x, y) == [i \in 1..Len(x) |-> (x[i] + y[i]) % 2]

\* The IEEE polynomial 0xEDB88320.
IEEE == <<0,0,0,0,0,1,0,0, 1,1,0,0,0,0,0,1, 0,0,0,1,1,1,0,1, 1,0,1,1,0,1,1,1>>

AllOnes == [i \in 1..32 |-> 1]

\* One bit of the CRC: shift right, and xor the polynomial in when a 1 fell out.
CrcShift(c) ==
    LET shifted == Tail(c) \o <<0>>
    IN IF c[1] = 1 THEN XorBits(shifted, IEEE) ELSE shifted

RECURSIVE CrcShifts(_, _)
CrcShifts(c, n) == IF n = 0 THEN c ELSE CrcShifts(CrcShift(c), n - 1)

RECURSIVE CrcUpdate(_, _)
CrcUpdate(c, data) ==
    IF data = <<>> THEN c
    ELSE CrcUpdate(CrcShifts(XorBits(c, Bits8(Head(data)) \o [i \in 1..24 |-> 0]), 8),
                   Tail(data))

ByteOf(c, k) ==
    c[8*k+1] + 2*c[8*k+2] + 4*c[8*k+3] + 8*c[8*k+4]
    + 16*c[8*k+5] + 32*c[8*k+6] + 64*c[8*k+7] + 128*c[8*k+8]

\* crc32.ChecksumIEEE, as the four bytes PutUint32 stores.
ChecksumIEEE(data) ==
    LET c == XorBits(CrcUpdate(AllOnes, data), AllOnes)
    IN <<ByteOf(c, 3), ByteOf(c, 2), ByteOf(c, 1), ByteOf(c, 0)>>

\* Encode with the value laid before the key.
EncodeValueFirst(e) ==
    ChecksumIEEE(e.Value) \o PutUint32(Len(e.Key)) \o PutUint32(Len(e.Value))
    \o PutUint32(Len(e.Extra)) \o PutUint16(e.Type) \o PutUint16(e.Mark)
    \o e.Value \o e.Key \o e.Extra

\* Entry.Encode: crc, key size, value size, extra size, type, mark, payloads.
Encode(e) ==
    ChecksumIEEE(e.Value) \o PutUint32(Len(e.Key)) \o PutUint32(Len(e.Value))
    \o PutUint32(Len(e.Extra)) \o PutUint16(e.Type) \o PutUint16(e.Mark)
    \o e.Key \o e.Value \o e.Extra

\* Decode: the header fields of a 20-byte buffer.
Decode(buf) ==
    [crc32 |-> SubSeq(buf, 1, 4), KeySize |-> Uint32(SubSeq(buf, 5, 8)),
     ValueSize |-> Uint32(SubSeq(buf, 9, 12)), ExtraSize |-> Uint32(SubSeq(buf, 13, 16)),
     Type |-> Uint16(SubSeq(buf, 17, 18)), Mark |-> Uint16(SubSeq(buf, 19, 20))]

Zeros(n) == [i \in 1..n |-> 0]

\* DBFile.readBuf.  FileIO: ReadAt fails when fewer than n bytes follow offset.
\* MMap: copy of what the mapping holds from offset on, zero beyond it.
readBuf(df, offset, n) ==
    IF df.method = FileIO
    THEN IF offset + n > Len(df.bytes) THEN [err |-> "EOF", buf |-> <<>>]
         ELSE [err |-> "nil", buf |-> SubSeq(df.bytes, offset + 1, offset + n)]
    ELSE IF offset <= Len(df.bytes)
         THEN LET have == SubSeq(df.bytes, offset + 1, Len(df.bytes))
              IN [err |-> "nil",
                  buf |-> IF Len(have) >= n THEN SubSeq(have, 1, n)
                          ELSE have \o Zeros(n - Len(have))]
         ELSE [err |-> "nil", buf |-> Zeros(n)]

\* Read without the comparison of the checksums.
ReadBytesNoCrc(df, offset) ==
    LET none == [err |-> "nil", buf |-> <<>>]
        h == readBuf(df, offset, entryHeaderSize)
        hd == Decode(h.buf)
        k == IF hd.KeySize > 0 THEN readBuf(df, offset + entryHeaderSize, hd.KeySize)
             ELSE none
        v == IF hd.ValueSize > 0
             THEN readBuf(df, offset + entryHeaderSize + hd.KeySize, hd.ValueSize)
             ELSE none
        x == IF hd.ExtraSize > 0
             THEN readBuf(df, offset + entryHeaderSize + hd.KeySize + hd.ValueSize,
                          hd.ExtraSize)
             ELSE none
    IN IF h.err # "nil" THEN [err |-> h.err, e |-> None]
       ELSE IF k.err # "nil" THEN [err |-> k.err, e |-> None]
       ELSE IF v.err # "nil" THEN [err |-> v.err, e |-> None]
       ELSE IF x.err # "nil" THEN [err |-> x.err, e |-> None]
       ELSE [err |-> "nil",
             e |-> [Type |-> hd.Type, Mark |-> hd.Mark, KeySize |-> hd.KeySize,
                    ValueSize |-> hd.ValueSize, ExtraSize |-> hd.ExtraSize,
                    Key |-> k.buf, Value |-> v.buf, Extra |-> x.buf]]

\* DBFile.Read at byte level: header, key, value, extra, CRC of the value.
ReadBytes(df, offset) ==
    LET none == [err |-> "nil", buf |-> <<>>]
        h == readBuf(df, offset, entryHeaderSize)
        hd == Decode(h.buf)
        k == IF hd.KeySize > 0 THEN readBuf(df, offset + entryHeaderSize, hd.KeySize)
             ELSE none
        v == IF hd.ValueSize > 0
             THEN readBuf(df, offset + entryHeaderSize + hd.KeySize, hd.ValueSize)
             ELSE none
        x == IF hd.ExtraSize > 0
             THEN readBuf(df, offset + entryHeaderSize + hd.KeySize + hd.ValueSize,
                          hd.ExtraSize)
             ELSE none
    IN IF h.err # "nil" THEN [err |-> h.err, e |-> None]
       ELSE IF k.err # "nil" THEN [err |-> k.err, e |-> None]
       ELSE IF v.err # "nil" THEN [err |-> v.err, e |-> None]
       ELSE IF x.err # "nil" THEN [err |-> x.err, e |-> None]
       ELSE IF ChecksumIEEE(v.buf) # hd.crc32 THEN [err |-> "ErrInvalidCrc", e |-> None]
       ELSE [err |-> "nil",
             e |-> [Type |-> hd.Type, Mark |-> hd.Mark, KeySize |-> hd.KeySize,
                    ValueSize |-> hd.ValueSize, ExtraSize |-> hd.ExtraSize,
                    Key |-> k.buf, Value |-> v.buf, Extra |-> x.buf]]

\* buf with enc laid over it from offset on; the file grows when grow is set
\* (WriteAt), otherwise what does not fit is dropped (copy into the mapping).
Overlay(buf, offset, enc, grow) ==
    LET end == IF grow THEN Max(Len(buf), offset + Len(enc)) ELSE Len(buf)
    IN [i \in 1..end |->
          IF i > offset /\ i <= offset + Len(enc) THEN enc[i - offset]
          ELSE IF i <= Len(buf) THEN buf[i] ELSE 0]

\* DBFile.Write at byte level.
WriteBytes(df, e) ==
    IF Len(e.Key) = 0 THEN [err |-> "ErrEmptyEntry", df |-> df]
    ELSE IF df.method = MMap /\ df.Offset > Len(df.bytes)
    THEN [err |-> "panic", df |-> df]          \* slice bounds out of range
    ELSE [err |-> "nil",
          df |-> [df EXCEPT !.bytes = Overlay(@, df.Offset, Encode(e), df.method = FileIO),
                            !.Offset = @ + Size(e)]]

\* NewDBFile at byte level: the mapping of a file truncated to the block size.
NewByteFile(method, blockSize) ==
    [method |-> method, bytes |-> IF method = MMap THEN Zeros(blockSize) ELSE <<>>,
     Offset |-> 0]

-----------------------------------------------------------------------------
(* SpecCodec: records written to and read from one DBFile, byte by byte; the  *)
(* file may be altered between a Write and a Read.                            *)

CodecKeys == {<<1>>, <<1, 2>>}
CodecValues == {<<>>, <<7>>, <<7, 8>>}
CodecExtras == {<<>>, <<9>>}

CodecEntries ==
    {NewEntry(k, v, x, tm[1], tm[2]) :
        k \in CodecKeys, v \in CodecValues, x \in CodecExtras,
        tm \in {<<String, StringSet>>, <<SetType, SetSMove>>}}
    \cup {NewEntryNoExtra(<<>>, <<7>>, String, StringSet)}

IO(op, off, r, written) ==
    [op |-> op, off |-> off, err |-> r.err, e |-> r.e, written |-> written]

InitCodec ==
    /\ OpenedOn(Config(KeyOnlyRamMode, FileIO, SmallBlock), MaxFiles)
    /\ \E method \in {FileIO, MMap} : dbFile = NewByteFile(method, CodecBlock)
    /\ io = IO("NewDBFile", 0, [err |-> "nil", e |-> None], <<>>)
    /\ twin = None
    /\ skipList = None

\* Write, called as store calls it: on a segment the record fits in.
CodecWrite(e) ==
    /\ Len(io.written) < MaxCodecRecords
    /\ dbFile.Offset + Size(e) <= CodecBlock
    /\ \E r \in {WriteBytes(dbFile, e)} :
          /\ dbFile' = r.df
          /\ io' = IO("Write", dbFile.Offset, [err |-> r.err, e |-> e],
                      IF r.err = "nil"
                      THEN Append(io.written, [e |-> e, off |-> dbFile.Offset,
                                               altered |-> FALSE])
                      ELSE io.written)
    /\ UNCHANGED <<engineVars, histVars, threadVars, twin, skipList>>

\* Read at the offset of a written record, or at the write offset.
CodecRead(off) ==
    /\ off \in {io.written[i].off : i \in 1..Len(io.written)} \cup {dbFile.Offset}
    /\ io' = IO("Read", off, ReadBytes(dbFile, off), io.written)
    /\ UNCHANGED <<engineVars, histVars, threadVars, dbFile, twin, skipList>>

\* Position in the file of byte j of the value of written record i.
ValueAt(i, j) == io.written[i].off + entryHeaderSize + Len(io.written[i].e.Key) + j

\* Something outside the engine replaces one value byte of a written record.
CodecAlter(i, j, b) ==
    /\ i \in 1..Len(io.written)
    /\ j \in 1..Len(io.written[i].e.Value)
    /\ dbFile.bytes[ValueAt(i, j)] # b
    /\ dbFile' = [dbFile EXCEPT !.bytes[ValueAt(i, j)] = b]
    /\ io' = [io EXCEPT !.op = "Alter", !.written[i].altered = TRUE]
    /\ UNCHANGED <<engineVars, histVars, threadVars, twin, skipList>>

NextCodec ==
    \/ \E e \in CodecEntries : CodecWrite(e)
    \/ \E off \in 0..CodecBlock : CodecRead(off)
    \/ \E i \in 1..MaxCodecRecords, j \in 1..2, b \in {7, 8} : CodecAlter(i, j, b)

SpecCodec == InitCodec /\ [][NextCodec]_vars

StoredValue(i) ==
    SubSeq(dbFile.bytes, ValueAt(i, 1), ValueAt(i, Len(io.written[i].e.Value)))

\* C18: a Read at the offset of a record whose stored value bytes differ from
\* the value it was written with, the stored checksum unchanged, fails with
\* InvalidCrc and returns no record.
CrcCheckOnRead ==
    \A i \in 1..Len(io.written) :
        (/\ io.op = "Read" /\ io.off = io.written[i].off
         /\ StoredValue(i) # io.written[i].e.Value) =>
            io.err = "ErrInvalidCrc" /\ io.e = None

\* A record with a two-byte value, one byte of it replaced, has been read.
CrcCheckWitness ==
    /\ io.op = "Read" /\ io.err = "ErrInvalidCrc"
    /\ \E i \in 1..Len(io.written) :
          /\ io.off = io.written[i].off
          /\ io.written[i].e.Value = <<7, 8>>
          /\ StoredValue(i) = <<7, 7>>

-----------------------------------------------------------------------------
(* Scans of the ordered String index and Append (db_str.go, skiplist.go) *)

\* The byte values of the characters used in keys and values.
ByteRank == [c \in {"1", "2", "a", "b", "x"} |->
                CASE c = "1" -> 49 [] c = "2" -> 50 [] c = "a" -> 97
                  [] c = "b" -> 98 [] c = "x" -> 120]

\* bytes.Compare
RECURSIVE Compare(_, _)
Compare(x, y) ==
    IF x = <<>> THEN (IF y = <<>> THEN 0 ELSE -1)
    ELSE IF y = <<>> THEN 1
    ELSE IF ByteRank[Head(x)] < ByteRank[Head(y)] THEN -1
    ELSE IF ByteRank[Head(x)] > ByteRank[Head(y)] THEN 1
    ELSE Compare(Tail(x), Tail(y))

\* strings.HasPrefix
HasPrefix(key, prefix) ==
    Len(prefix) <= Len(key) /\ SubSeq(key, 1, Len(prefix)) = prefix

\* The keys of a skip list in the order of its bottom level.
RECURSIVE KeysInOrder(_)
KeysInOrder(S) ==
    IF S = {} THEN <<>>
    ELSE LET k == CHOOSE x \in S : \A y \in S : Compare(x, y) <= 0
         IN <<k>> \o KeysInOrder(S \ {k})

\* SkipList.FindPrefix: the elements from the first one whose key is not below
\* the prefix; the whole list (Front) when there is none.
FindPrefix(idx, prefix) ==
    LET all == KeysInOrder(DOMAIN idx)
        from == {i \in 1..Len(all) : Compare(prefix, all[i]) <= 0}
    IN IF from = {} THEN all
       ELSE SubSeq(all, MinOf(from), Len(all))

\* The loop of PrefixScan with limit < 0: it ends at the end of the list, at a
\* key without the prefix, or at a Get that fails.
RECURSIVE PrefixLoop(_, _, _, _)
PrefixLoop(d, elems, prefix, val) ==
    IF elems = <<>> \/ ~HasPrefix(Head(elems), prefix) THEN [err |-> "nil", val |-> val]
    ELSE IF d.config.IdxMode = KeyOnlyRamMode
    THEN LET r == Get(d, Head(elems))
         IN IF r.err # "nil" THEN [err |-> r.err, val |-> val]
            ELSE PrefixLoop(d, Tail(elems), prefix, Append(val, r.val))
    ELSE PrefixLoop(d, Tail(elems), prefix, Append(val, d.strIndex[Head(elems)].Value))

\* PrefixScan(prefix, -1, 0)
PrefixScan(d, prefix) ==
    LET chk == checkKeyValue(d.config, prefix, <<>>)
    IN IF chk # "nil" THEN [err |-> chk, val |-> <<>>]
       ELSE PrefixLoop(d, FindPrefix(d.strIndex, prefix), prefix, <<>>)

\* The loop of RangeScan: node.Key() on the nil node that follows the last
\* element stops the process.
RECURSIVE RangeLoop(_, _, _, _)
RangeLoop(d, elems, end, val) ==
    IF elems = <<>> THEN [err |-> "panic", val |-> <<>>]
    ELSE IF Compare(Head(elems), end) > 0 THEN [err |-> "nil", val |-> val]
    ELSE IF d.config.IdxMode = KeyOnlyRamMode
    THEN LET r == Get(d, Head(elems))
         IN IF r.err # "nil" THEN [err |-> r.err, val |-> <<>>]
            ELSE RangeLoop(d, Tail(elems), end, Append(val, r.val))
    ELSE RangeLoop(d, Tail(elems), end, Append(val, d.strIndex[Head(elems)].Value))

RangeScan(d, start, end) ==
    IF start \notin DOMAIN d.strIndex THEN [err |-> "ErrKeyNotExist", val |-> <<>>]
    ELSE LET all == KeysInOrder(DOMAIN d.strIndex)
             i == CHOOSE j \in 1..Len(all) : all[j] = start
         IN RangeLoop(d, SubSeq(all, i, Len(all)), end, <<>>)

\* Append: checkKeyValue, Get, then Set of the old value followed by value.
AppendStr(d, key, value, t) ==
    LET chk == checkKeyValue(d.config, key, <<value>>)
        g == Get(d, key)
    IN IF chk # "nil" THEN [err |-> chk, db |-> d]
       ELSE IF g.err # "nil" THEN [err |-> g.err, db |-> d]
       ELSE Set(d, key, g.val \o value, t)

-----------------------------------------------------------------------------
(* SpecScan: Set, Append, StrRem, Reclaim and the scans over keys of one and  *)
(* two bytes, in both index modes                                             *)

KeyAB == <<"a", "b">>
ScanKeys == {KeyA, KeyAB, KeyB}

ScanConfig(idxMode) ==
    [Config(idxMode, FileIO, SmallBlock) EXCEPT !.MaxKeySize = 2, !.MaxValueSize = 2]

InitScan ==
    \E idxMode \in {KeyValueRamMode, KeyOnlyRamMode} :
        /\ OpenedWith(ScanConfig(idxMode), MaxScanFiles, ScanKeys)
        /\ dbFile = NoDBFile
        /\ io = NoIO
        /\ twin = None
        /\ skipList = None

\* A call that reads: the engine is left as it was unless the process stops.
Reads(op, key, value, r) ==
    /\ last' = Ret(op, key, value, r.err, r.val)
    /\ status' = IF r.err = "panic" THEN "fatal" ELSE status
    /\ UNCHANGED <<config, disk, metaFile, expFile, activeFile, activeFileIds, archFiles,
                   meta, strIndex, listIndex, setIndex, expires, now,
                   lastSet, inWindow, snap, limit, codecVars, twin, skipList, threadVars>>

CallPrefixScan(prefix) ==
    Idle /\ \E r \in {PrefixScan(DB, prefix)} : Reads("PrefixScan", prefix, EmptyBytes, r)

CallRangeScan(start, end) ==
    Idle /\ \E r \in {RangeScan(DB, start, end)} : Reads("RangeScan", start, end, r)

CallAppend(k, v) ==
    /\ Idle
    /\ \E r \in {AppendStr(DB, k, v, now)} :
          /\ Within(r.db)
          /\ Becomes(r.db)
          /\ last' = Ret("Append", k, v, r.err, lastSet[k])
          /\ IF r.err = "nil" THEN Window("Set", k, r.err, Get(DB, k).val \o v)
             ELSE UNCHANGED <<lastSet, inWindow>>
    /\ snap' = NoSnap
    /\ UNCHANGED <<now, status, limit, codecVars, twin, skipList, threadVars>>

NextScan ==
    \/ \E k \in ScanKeys : CallSet(k, Val1)
    \/ \E k \in ScanKeys : CallAppend(k, Val2)
    \/ \E k \in ScanKeys : CallStrRem(k)
    \/ \E p \in ScanKeys \cup {EmptyBytes} : CallPrefixScan(p)
    \/ \E start \in ScanKeys, end \in ScanKeys : CallRangeScan(start, end)
    \/ CallReclaim

SpecScan == InitScan /\ [][NextScan]_vars

\* The values last set for the keys of S, in the order of the keys.
ValuesInOrder(S) == [i \in 1..Cardinality(S) |-> lastSet[KeysInOrder(S)[i]]]

\* C13: PrefixScan(p, -1, 0) of a prefix that passes validation returns the
\* values of exactly the keys of the String index that have p as a prefix, in
\* ascending order of the keys.
PrefixScanOrdering ==
    (last.op = "PrefixScan" /\ last.key # EmptyBytes) =>
        /\ last.err = "nil"
        /\ last.val = ValuesInOrder({k \in DOMAIN strIndex : HasPrefix(k, last.key)})

\* C14: RangeScan(start, end) fails with KeyNotExist when start is not in the
\* String index; otherwise it returns, in key order, the values of exactly
\* the keys from start to end.
RangeScanResult ==
    last.op = "RangeScan" =>
        IF last.key \notin DOMAIN strIndex THEN last.err = "ErrKeyNotExist"
        ELSE /\ last.err = "nil"
             /\ last.val = ValuesInOrder({k \in DOMAIN strIndex :
                                             /\ Compare(last.key, k) <= 0
                                             /\ Compare(k, last.value) <= 0})

\* C15: Append(key, value) succeeds and leaves Get(key) returning the old
\* value followed by value, or value alone when the key was absent
\* (last.val is the value the key had before the call, empty when absent).
AppendSemantics ==
    last.op = "Append" =>
        /\ last.err = "nil"
        /\ Get(DB, last.key) = [err |-> "nil", val |-> last.val \o last.value]

-----------------------------------------------------------------------------
(* SpecFault: calls on a disk whose writes may fail *)

CallSetFailing(k, v) ==
    Idle /\ \E r \in {Set(Failing(DB), k, v, now)} : Returns("Set", k, v, r, EmptyBytes)

CallRPushFailing(k, v) ==
    Idle /\ \E r \in {RPush(Failing(DB), k, v)} : Returns("RPush", k, v, r, EmptyBytes)

CallLPopFailing(k) ==
    Idle /\ \E r \in {LPop(Failing(DB), k)} : Returns("LPop", k, EmptyBytes, r, r.val)

CallSAddFailing(k, m) ==
    Idle /\ \E r \in {SAdd(Failing(DB), k, m)} : Returns("SAdd", k, m, r, EmptyBytes)

CallStrRemFailing(k) ==
    /\ Idle
    /\ \E r \in {StrRem(Failing(DB), k)} :
          /\ Within(r.db)
          /\ Becomes(r.db)
          /\ last' = Ret("StrRem", k, EmptyBytes, r.err, EmptyBytes)
          /\ Window("StrRem", k, r.err, EmptyBytes)
    /\ snap' = NoSnap
    /\ UNCHANGED <<now, status, limit, codecVars, twin, skipList, threadVars>>

InitFault == InitWith(Config(KeyOnlyRamMode, FileIO, SmallBlock), MaxKindFiles)

NextFault ==
    \/ \E v \in Vals : CallSet(KeyA, v)
    \/ \E v \in Vals : CallRPush(KeyA, v)
    \/ CallLPop(KeyA)
    \/ CallSAdd(KeyA, Val1)
    \/ \E v \in Vals : CallSetFailing(KeyA, v)
    \/ \E v \in Vals : CallRPushFailing(KeyA, v)
    \/ CallLPopFailing(KeyA)
    \/ CallSAddFailing(KeyA, Val1)
    \/ CallStrRemFailing(KeyA)

SpecFault == InitFault /\ [][NextFault]_vars

\* C17: a call that has a record to append and whose append fails returns an
\* error; checked for Set, RPush, SAdd and LPop.
ErrorPropagation ==
    [][/\ \A v \in Vals : CallSetFailing(KeyA, v) => last'.err # "nil"
       /\ \A v \in Vals : CallRPushFailing(KeyA, v) => last'.err # "nil"
       /\ CallSAddFailing(KeyA, Val1) => last'.err # "nil"
       /\ (CallLPopFailing(KeyA) /\ ListOf(listIndex, KeyA) # <<>>) => last'.err # "nil"]_vars

\* C16: no call of Reclaim is left in its scan loop for ever.
ReclaimTerminates == ~(last.op = "Reclaim" /\ status = "hung")

\* The record the locator idx of the String key k points at, if there is one:
\* the segment exists and a StringSet record of k starts at idx.Offset.
Located(k, idx) ==
    IF idx.FileId # activeFileIds[String] /\ idx.FileId \notin DOMAIN archFiles[String]
    THEN {}
    ELSE LET df == IF idx.FileId # activeFileIds[String]
                   THEN archFiles[String][idx.FileId]
                   ELSE activeFile[String]
             f == disk[String][df.Id]
         IN {f[i] : i \in {j \in RecordAt(f, idx.Offset) :
                              f[j].Mark = StringSet /\ f[j].Key = k}}

\* C19: for every key of the String index that a call has set, the segment
\* named by the locator exists and holds, at the locator's offset, a StringSet
\* record of that key with the latest value set for it.
LocatorInvariant ==
    status = "open" =>
        \A k \in DOMAIN strIndex \cap Keys :
            \E e \in Located(k, strIndex[k]) : e.Value = lastSet[k]

\* The StringSet records of key k in the archived String segments, as
\* <<segment id, position>> pairs.
ArchivedSets(k, arch, dsk) ==
    {p \in UNION {{<<id, i>> : i \in 1..Len(dsk[arch[id].Id])} : id \in DOMAIN arch} :
        /\ dsk[arch[p[1]].Id][p[2]].Mark = StringSet
        /\ dsk[arch[p[1]].Id][p[2]].Key = k}

\* Of those, the ones that are live when Reclaim begins: the key is not
\* expired and its locator points at exactly that record.
LiveSets(k) ==
    {p \in ArchivedSets(k, archFiles[String], disk[String]) :
        /\ ~Expired(expires, k, now)
        /\ k \in DOMAIN strIndex
        /\ strIndex[k].FileId = p[1]
        /\ strIndex[k].Offset = StartOf(disk[String][archFiles[String][p[1]].Id], p[2])}

\* C20: a Reclaim that rewrites the String segments rewrites exactly the
\* StringSet records that were live when it began, so the rewritten segments
\* hold one StringSet record, the located one, for each key with a live
\* archived record and none for any other key.
ReclaimStringLiveness ==
    [][/\ last'.op = "Reclaim" /\ last'.err = "nil" /\ CallReclaim
       /\ Cardinality(DOMAIN archFiles[String]) >= config.ReclaimThreshold
       => \A k \in Keys :
             LET old == disk[String]
                 new == disk'[String]
                 live == LiveSets(k)
                 rewritten == ArchivedSets(k, archFiles'[String], new)
             IN /\ Cardinality(rewritten) = Cardinality(live)
                /\ \A p \in live : \E q \in rewritten :
                      new[archFiles'[String][q[1]].Id][q[2]]
                         = old[archFiles[String][p[1]].Id][p[2]]]_vars

-----------------------------------------------------------------------------
(* Segment capacity and rotation *)

\* A configuration whose largest valid record (a key of one byte and a value
\* of two) is one byte longer than a segment.
CapacityConfig(idxMode) ==
    [Config(idxMode, FileIO, TinyBlock) EXCEPT !.MaxValueSize = 2]

InitCapacity ==
    \E idxMode \in {KeyValueRamMode, KeyOnlyRamMode} :
        InitWith(CapacityConfig(idxMode), MaxCapacityFiles)

NextCapacity ==
    \/ \E k \in Keys, v \in Vals \cup {LongBytes} : CallSet(k, v)
    \/ \E k \in Keys : CallGet(k)
    \/ \E k \in Keys : CallStrRem(k)
    \/ Restart

SpecCapacity == InitCapacity /\ [][NextCapacity]_vars

\* C21: the write offset of every segment, active or archived, of every kind,
\* and the length of every segment file, is at most BlockSize.
CapacityInvariant ==
    \A k \in Kinds :
        /\ activeFile[k].Offset <= config.BlockSize
        /\ \A id \in DOMAIN archFiles[k] : archFiles[k][id].Offset <= config.BlockSize
        /\ \A id \in DOMAIN disk[k] : FileLen(disk[k][id]) <= config.BlockSize

\* C22: a successful Set whose record does not fit the active String segment
\* archives that segment under its own id (one more archived segment), opens
\* a fresh active segment under the next id and appends the record at its
\* offset 0; a Set whose record fits archives nothing, keeps the active id and
\* appends at the write offset.
RotationStep ==
    [][\A k \in Keys, v \in Vals :
          CallSet(k, v) /\ last'.err = "nil" =>
             LET e == NewEntryNoExtra(k, v, String, StringSet)
                 id == activeFileIds[String]
                 off == activeFile[String].Offset
             IN IF off + Size(e) > config.BlockSize
                THEN /\ id \notin DOMAIN archFiles[String]
                     /\ archFiles'[String] = Put(archFiles[String], id, activeFile[String])
                     /\ activeFileIds'[String] = id + 1
                     /\ activeFile'[String] = Handle(id + 1, Size(e))
                     /\ disk'[String][id + 1] = <<e>>
                ELSE /\ archFiles' = archFiles
                     /\ activeFileIds' = activeFileIds
                     /\ activeFile'[String] = Handle(id, off + Size(e))
                     /\ \E i \in RecordAt(disk'[String][id], off) : disk'[String][id][i] = e]_vars

\* A Set has just rotated a full segment of five records: it is archived
\* under id 0 with its write offset, and the record is alone in segment 1.
RotationStepWitness ==
    /\ last.op = "Set" /\ last.err = "nil"
    /\ activeFileIds[String] = 1
    /\ 0 \in DOMAIN archFiles[String]
    /\ archFiles[String][0].Offset = config.BlockSize
    /\ Len(disk[String][1]) = 1
    /\ activeFile[String].Offset = Size(disk[String][1][1])

\* C23: whenever the engine is open, the write offset of the active segment
\* of every kind is the end of the last record appended to that segment, and
\* the metadata offset of every kind written to equals it; this holds after
\* every append and after Close and reopen.
WriteOffsetAcrossRestart ==
    status = "open" =>
        \A k \in Kinds :
            /\ activeFile[k].Offset = FileLen(disk[k][activeFileIds[k]])
            /\ k \in DOMAIN meta => meta[k] = activeFile[k].Offset

-----------------------------------------------------------------------------
(* Recovery *)

\* C24: recovery replays nothing at or after the logical end of a segment, so
\* no index ever holds an entry with an empty key.
NoEmptyKeyIndexed ==
    /\ EmptyBytes \notin DOMAIN strIndex
    /\ EmptyBytes \notin DOMAIN listIndex
    /\ EmptyBytes \notin DOMAIN setIndex

-----------------------------------------------------------------------------
(* Order of log and index *)

\* C25: a mutating call whose append fails leaves every in-memory index as it
\* was; checked for Set, StrRem, RPush, LPop and SAdd.
LogBeforeIndex ==
    [][(\/ \E v \in Vals : CallSetFailing(KeyA, v)
        \/ CallStrRemFailing(KeyA)
        \/ \E v \in Vals : CallRPushFailing(KeyA, v)
        \/ CallLPopFailing(KeyA)
        \/ CallSAddFailing(KeyA, Val1))
       => UNCHANGED <<strIndex, listIndex, setIndex>>]_vars

(* SpecReplay: pushes and pops on one list with two records per segment, and  *)
(* restarts                                                                   *)

InitReplay == InitWith(Config(KeyOnlyRamMode, FileIO, PairBlock), MaxReplayFiles)

NextReplay ==
    \/ \E v \in Vals : CallRPush(KeyA, v)
    \/ CallLPop(KeyA)
    \/ Restart

SpecReplay == InitReplay /\ [][NextReplay]_vars

-----------------------------------------------------------------------------
(* The segments Reclaim writes *)

\* The records of the segments ids of the files dsk, read in the order ids.
RECURSIVE RecordsOf(_, _, _)
RecordsOf(arch, dsk, ids) ==
    IF ids = <<>> THEN <<>>
    ELSE dsk[arch[Head(ids)].Id] \o RecordsOf(arch, dsk, Tail(ids))

\* The records of the archived segments in append order: ascending id.
ArchivedLog(arch, dsk) == RecordsOf(arch, dsk, SortInts(DOMAIN arch))

\* a is b with some records left out.
RECURSIVE IsSubSeq(_, _)
IsSubSeq(a, b) ==
    IF a = <<>> THEN TRUE
    ELSE IF b = <<>> THEN FALSE
    ELSE IF Head(a) = Head(b) THEN IsSubSeq(Tail(a), Tail(b))
    ELSE IsSubSeq(a, Tail(b))

\* C27: the records a successful Reclaim writes into the new archived
\* segments of a kind are in the relative order in which they were appended
\* to the old ones.
RewriteOrder ==
    [][last'.op = "Reclaim" /\ last'.err = "nil" /\ CallReclaim =>
          \A k \in Kinds :
             IsSubSeq(ArchivedLog(archFiles'[k], disk'[k]), ArchivedLog(archFiles[k], disk[k]))]_vars

(* SpecReclaimKinds: writes and removals of the String, list and set kinds on *)
(* one key, one record per segment, and Reclaim                               *)

InitReclaimKinds == InitWith(Config(KeyOnlyRamMode, FileIO, SmallBlock), MaxReclaimKindFiles)

NextReclaimKinds ==
    \/ CallSet(KeyA, Val1)
    \/ CallStrRem(KeyA)
    \/ \E v \in Vals : CallRPush(KeyA, v)
    \/ CallLPop(KeyA)
    \/ CallSAdd(KeyA, Val1)
    \/ CallSRem(KeyA, Val1)
    \/ CallReclaim

SpecReclaimKinds == InitReclaimKinds /\ [][NextReclaimKinds]_vars

\* The marks of kind k that record a removal.
DeletionMarks(k) ==
    IF k = String THEN {StringRem}
    ELSE IF k = List THEN {ListLPop}
    ELSE IF k = SetType THEN {SetSRem}
    ELSE {}

ReclaimFrame ==
    [][last'.op = "Reclaim" /\ CallReclaim =>
          /\ activeFile' = activeFile
          /\ activeFileIds' = activeFileIds
          /\ meta' = meta
          /\ \A k \in Kinds :
                /\ disk'[k][activeFileIds[k]] = disk[k][activeFileIds[k]]
                /\ Cardinality(DOMAIN archFiles[k]) < config.ReclaimThreshold =>
                      /\ archFiles'[k] = archFiles[k]
                      /\ disk'[k] = disk[k]]_vars

\* Reclaim has compacted the list kind (two archived segments before, fewer
\* after) while the String kind had one archived segment, below the threshold.
ReclaimFrameWitness ==
    /\ last.op = "Reclaim" /\ last.err = "nil"
    /\ activeFileIds[List] = 2
    /\ Cardinality(DOMAIN archFiles[List]) < 2
    /\ activeFileIds[String] = 1
    /\ Cardinality(DOMAIN archFiles[String]) = 1

-----------------------------------------------------------------------------
(* SpecCrash: Reclaim in the steps of its file operations (the rewrite into   *)
(* the scratch directory, the removal of each old archived segment, the       *)
(* renaming of each new one), with the process stopping between them and the  *)
(* data directory being opened again                                          *)

Reclaimer == "t1"

\* The kinds this Reclaim compacts.
ReclaimedKinds == {k \in Kinds : Cardinality(DOMAIN archFiles[k]) >= config.ReclaimThreshold}

\* The archived segment files of the compacted kinds, as <<kind, id>>.
OldFiles == UNION {{<<k, id>> : id \in DOMAIN archFiles[k]} : k \in ReclaimedKinds}

\* The new segment files of the compacted kinds in the scratch directory.
NewFiles(new) == UNION {{<<k, id>> : id \in DOMAIN new.archFiles[k]} : k \in ReclaimedKinds}

\* The goroutines have run: the new segments are in the scratch directory and
\* the locators of the String index point into them.
ReclaimRewrite ==
    /\ Idle /\ reclaimable(DB) /\ config.RwMethod = FileIO
    /\ \E os \in Orders(DOMAIN archFiles[String]), ol \in Orders(DOMAIN archFiles[List]),
          oh \in Orders(DOMAIN archFiles[Hash]), ot \in Orders(DOMAIN archFiles[SetType]),
          oz \in Orders(DOMAIN archFiles[ZSet]) :
          \E d \in {ReclaimKinds(DB, SortInts(Kinds), <<os, ol, oh, ot, oz>>, now)} :
             /\ arg' = [arg EXCEPT ![Reclaimer] = [new |-> d, removed |-> {}, renamed |-> {}]]
             /\ strIndex' = d.strIndex
    /\ pc' = [pc EXCEPT ![Reclaimer] = "Reclaim.remove"]
    /\ mu' = [mu EXCEPT !.writer = Reclaimer]
    /\ snap' = [valid |-> TRUE, view |-> View(DB)]
    /\ UNCHANGED <<config, disk, metaFile, expFile, activeFile, activeFileIds, archFiles,
                   meta, listIndex, setIndex, expires, now, status, last, lastSet,
                   inWindow, limit, codecVars, twin, skipList, setMu>>

\* os.Remove of one old archived segment, in the order of the map.
ReclaimRemove ==
    /\ Open_ /\ pc[Reclaimer] = "Reclaim.remove"
    /\ \E f \in OldFiles \ arg[Reclaimer].removed :
          /\ disk' = [disk EXCEPT ![f[1]] = Remove(@, f[2])]
          /\ arg' = [arg EXCEPT ![Reclaimer].removed = @ \cup {f}]
          /\ pc' = [pc EXCEPT ![Reclaimer] =
                       IF arg[Reclaimer].removed \cup {f} = OldFiles
                       THEN "Reclaim.rename" ELSE "Reclaim.remove"]
    /\ UNCHANGED <<config, metaFile, expFile, activeFile, activeFileIds, archFiles, meta,
                   strIndex, listIndex, setIndex, expires, now, status, histVars,
                   codecVars, twin, skipList, mu, setMu>>

\* os.Rename of one new segment into the data directory, in the order of the
\* map; after the last one db.archFiles is replaced and Reclaim returns.
ReclaimRename ==
    /\ Open_ /\ pc[Reclaimer] = "Reclaim.rename"
    /\ LET new == arg[Reclaimer].new
           left == NewFiles(new) \ arg[Reclaimer].renamed
       IN IF left = {}
          THEN /\ archFiles' = new.archFiles
               /\ pc' = [pc EXCEPT ![Reclaimer] = "idle"]
               /\ arg' = [arg EXCEPT ![Reclaimer] = None]
               /\ mu' = [mu EXCEPT !.writer = NoThread]
               /\ last' = Ret("Reclaim", EmptyBytes, EmptyBytes, "nil", EmptyBytes)
               /\ inWindow' = [k \in DOMAIN inWindow |-> FALSE]
               /\ UNCHANGED <<disk, lastSet, snap, limit>>
          ELSE /\ \E f \in left :
                     /\ disk' = [disk EXCEPT ![f[1]] = Put(@, f[2], new.disk[f[1]][f[2]])]
                     /\ arg' = [arg EXCEPT ![Reclaimer].renamed = @ \cup {f}]
               /\ UNCHANGED <<archFiles, pc, mu, histVars>>
    /\ UNCHANGED <<config, metaFile, expFile, activeFile, activeFileIds, meta,
                   strIndex, listIndex, setIndex, expires, now, status, codecVars, twin, skipList, setMu>>

\* The process stops inside Reclaim and the data directory is opened again.
Crash ==
    /\ Open_ /\ pc[Reclaimer] # "idle"
    /\ \E r \in {Open(config, disk, metaFile, expFile, now)} :
          /\ Becomes(r.db)
          /\ status' = IF r.err = "nil" THEN "open" ELSE "failed"
          /\ last' = Ret("Crash", EmptyBytes, EmptyBytes, r.err, EmptyBytes)
    /\ pc' = [pc EXCEPT ![Reclaimer] = "idle"]
    /\ arg' = [arg EXCEPT ![Reclaimer] = None]
    /\ mu' = [mu EXCEPT !.writer = NoThread]
    /\ inWindow' = [k \in DOMAIN inWindow |-> FALSE]
    /\ UNCHANGED <<now, lastSet, snap, limit, codecVars, twin, skipList, setMu>>

InitCrash ==
    \E idxMode \in {KeyValueRamMode, KeyOnlyRamMode} :
        InitWith(Config(idxMode, FileIO, SmallBlock), MaxCrashFiles)

NextCrash ==
    \/ \E k \in Keys, v \in Vals : CallSet(k, v)
    \/ \E k \in Keys : CallGet(k)
    \/ ReclaimRewrite
    \/ ReclaimRemove
    \/ ReclaimRename
    \/ Crash

SpecCrash == InitCrash /\ [][NextCrash]_vars

\* C30: when the process stops at any step of Reclaim, opening the data
\* directory again yields what the reads returned before the Reclaim or what
\* they return when the complete set of new segments is opened.
AtomicSwap ==
    [][pc[Reclaimer] # "idle" /\ Crash =>
          \/ View(DB)' = snap.view
          \/ View(DB)' = View(Open(config, arg[Reclaimer].new.disk, metaFile, expFile, now).db)]_vars

-----------------------------------------------------------------------------
(* Segment ids *)

\* C31: the ids of the archived segments of a kind are pairwise distinct and
\* smaller than the id of the kind's active segment, also after Reclaim has
\* numbered the new archived segments from 0.
SegmentIdUniqueness ==
    status = "open" =>
        \A k \in Kinds :
            /\ \A id \in DOMAIN archFiles[k] :
                  /\ archFiles[k][id].Id = id
                  /\ id < activeFileIds[k]
            /\ activeFile[k].Id = activeFileIds[k]

SegmentIdWitness ==
    /\ status = "open"
    /\ last.op = "Reclaim" /\ last.err = "nil"
    /\ \E k \in Kinds :
          /\ snap.valid
          /\ DOMAIN archFiles[k] = {0, 1}
          /\ activeFileIds[k] = 2

-----------------------------------------------------------------------------
(* The size of the log across Reclaim *)

\* The keys whose live StringSet record lies in an archived segment.
LiveArchivedKeys == {k \in Keys : LiveSets(k) # {}}

\* The StringSet records of the model's keys and values that fit in a segment.
SetsPerSegment == config.BlockSize \div (entryHeaderSize + 2)

\* The segments the live archived StringSet records need.
SegmentsNeeded ==
    (Cardinality(LiveArchivedKeys) + SetsPerSegment - 1) \div SetsPerSegment

-----------------------------------------------------------------------------
(* SpecPage: PrefixScan with its limit and offset *)

\* The first loop of PrefixScan: up to n elements that have the prefix are
\* passed over.
RECURSIVE SkipPrefix(_, _, _)
SkipPrefix(elems, prefix, n) ==
    IF n > 0 /\ elems # <<>> /\ HasPrefix(Head(elems), prefix)
    THEN SkipPrefix(Tail(elems), prefix, n - 1)
    ELSE elems

\* The second loop of PrefixScan: it ends at the end of the list, at a key
\* without the prefix, when limit has come down to 0, or at a Get that fails.
RECURSIVE PageLoop(_, _, _, _, _)
PageLoop(d, elems, prefix, lim, val) ==
    IF elems = <<>> \/ ~HasPrefix(Head(elems), prefix) \/ lim = 0
    THEN [err |-> "nil", val |-> val]
    ELSE LET next == IF lim > 0 THEN lim - 1 ELSE lim
         IN IF d.config.IdxMode = KeyOnlyRamMode
            THEN LET r == Get(d, Head(elems))
                 IN IF r.err # "nil" THEN [err |-> r.err, val |-> val]
                    ELSE PageLoop(d, Tail(elems), prefix, next, Append(val, r.val))
            ELSE PageLoop(d, Tail(elems), prefix, next,
                          Append(val, d.strIndex[Head(elems)].Value))

\* PrefixScan(prefix, limit, offset)
PrefixScanPage(d, prefix, lim, offset) ==
    LET off == IF offset < 0 THEN 0 ELSE offset
        chk == checkKeyValue(d.config, prefix, <<>>)
        e == FindPrefix(d.strIndex, prefix)
    IN IF lim = 0 THEN [err |-> "nil", val |-> <<>>]
       ELSE IF chk # "nil" THEN [err |-> chk, val |-> <<>>]
       ELSE PageLoop(d, IF lim > 0 THEN SkipPrefix(e, prefix, off) ELSE e, prefix, lim, <<>>)

Limits == {-1, 0, 1, 2}
Offsets == {-1, 0, 1, 2}

CallPrefixScanPage(prefix, lim, offset) ==
    Idle /\ \E r \in {PrefixScanPage(DB, prefix, lim, offset)} :
                Reads("PrefixScan", prefix, EmptyBytes, r)

NextPage ==
    \/ \E k \in ScanKeys : CallSet(k, Val1)
    \/ \E k \in ScanKeys : CallAppend(k, Val2)
    \/ \E k \in ScanKeys : CallStrRem(k)
    \/ \E p \in ScanKeys, lim \in Limits, offset \in Offsets : CallPrefixScanPage(p, lim, offset)

SpecPage == InitScan /\ [][NextPage]_vars

\* The entries of s after the first n, at most lim of them (all when lim < 0).
Page(s, lim, n) ==
    LET from == IF n < 0 THEN 0 ELSE n
        upto == IF lim < 0 \/ from + lim > Len(s) THEN Len(s) ELSE from + lim
    IN SubSeq(s, from + 1, upto)

\* C33: PrefixScan(prefix, limit, offset) passes over the first `offset'
\* values of the keys with the prefix and returns at most `limit' of the
\* following ones: all of them when limit < 0, none when limit = 0.
PrefixScanPaging ==
    [][\A p \in ScanKeys, lim \in Limits, offset \in Offsets :
          CallPrefixScanPage(p, lim, offset) =>
             /\ last'.err = "nil"
             /\ last'.val = Page(ValuesInOrder({k \in DOMAIN strIndex : HasPrefix(k, p)}),
                                 lim, offset)]_vars

-----------------------------------------------------------------------------
(* SpecInsert: RPush and LInsert on one list whose values and pivots are made *)
(* of the bytes of the separator                                              *)

MaxInsertFiles == 3     \* segment ids of the List kind when LInsert is called

\* The pivots: strings made of the bytes of the separator and a third byte,
\* among them the separator alone and with a byte before it or after it.
Pivots ==
    {<<>>, <<"1">>, <<"\\">>, <<"1", "\\">>, <<"0", "1">>,
     ExtraSeparator, <<"1">> \o ExtraSeparator, ExtraSeparator \o <<"1">>}

InsertVals == {<<"1">>, <<"1", "\\">>, ExtraSeparator}

InsertOptions == {Before, After, 2}

InitInsert ==
    \E idxMode \in {KeyValueRamMode, KeyOnlyRamMode} :
        InitWith([Config(idxMode, FileIO, SmallBlock) EXCEPT !.MaxValueSize = 2],
                 MaxInsertFiles)

CallLInsert(k, option, pivot, v) ==
    /\ Idle
    /\ \E r \in {LInsert(DB, k, option, pivot, v)} :
          /\ Within(r.db)
          /\ Becomes(r.db)
          /\ last' = [op |-> "LInsert", key |-> k, value |-> v, err |-> r.err,
                      val |-> pivot, option |-> option]
    /\ snap' = NoSnap
    /\ UNCHANGED <<now, status, lastSet, inWindow, limit, codecVars, twin, skipList, threadVars>>

NextInsert ==
    \/ \E v \in InsertVals : CallRPush(KeyA, v)
    \/ \E option \in InsertOptions, pivot \in Pivots, v \in InsertVals :
          CallLInsert(KeyA, option, pivot, v)

SpecInsert == InitInsert /\ [][NextInsert]_vars

\* The record at the end of the active List segment.
LastListRecord(d) ==
    LET f == d.disk[List][d.activeFileIds[List]]
    IN f[Len(f)]

\* C34: LInsert rejects a pivot that contains the separator with
\* ErrExtraContainsSeparator and then changes neither the log nor the list;
\* the record an accepted LInsert logs, replayed on the list as it was before
\* the call, gives the list the call left.
LInsertSeparator ==
    [][last'.op = "LInsert" =>
          /\ Contains(last'.val, ExtraSeparator) =>
                /\ last'.err = "ErrExtraContainsSeparator"
                /\ UNCHANGED engineVars
          /\ last'.err = "nil" /\ disk' # disk =>
                LET e == LastListRecord(DB)'
                IN /\ e.Mark = ListLInsert
                   /\ e.Value = last'.value
                   /\ buildIndex(DB, e, Indexer(e, 0, 0), now).listIndex = listIndex']_vars

\* An accepted LInsert before a pivot that ends with the first byte of the
\* separator has put its value in front of the pivot.
LInsertSeparatorWitness ==
    /\ last.op = "LInsert" /\ last.err = "nil"
    /\ last.val = <<"1", "\\">> /\ last.option = Before
    /\ ListOf(listIndex, KeyA) = <<last.value, last.val>>
    /\ LastListRecord(DB).Mark = ListLInsert

-----------------------------------------------------------------------------
(* SpecLen: Set, StrRem, StrLen and restarts in both index modes *)

MaxLenFiles == 3        \* segment ids of the String kind when StrLen is called

InitLen ==
    \E idxMode \in {KeyValueRamMode, KeyOnlyRamMode} :
        InitWith(Config(idxMode, FileIO, SmallBlock), MaxLenFiles)

CallStrLen(k) ==
    Idle /\ Reads("StrLen", k, EmptyBytes, [err |-> "nil", val |-> <<StrLen(DB, k)>>])

NextLen ==
    \/ \E k \in Keys, v \in Vals : CallSet(k, v)
    \/ \E k \in Keys : CallStrRem(k)
    \/ \E k \in Keys : CallStrLen(k)
    \/ Restart

SpecLen == InitLen /\ [][NextLen]_vars

\* C35: StrLen(k) returns the length of the value Get(k) returns, and 0 when
\* the key is absent, in both index modes, before and after a restart.
StrLenResult ==
    last.op = "StrLen" =>
        LET g == Get(DB, last.key)
        IN last.val = <<IF g.err = "nil" THEN Len(g.val) ELSE 0>>

-----------------------------------------------------------------------------
(* SpecModes: two engines, one in KeyOnlyRamMode and its twin in              *)
(* KeyValueRamMode, each on its own directory, given the same calls           *)

MaxModeFiles == 4       \* segment ids of the String kind of either engine

InitModes ==
    /\ OpenedOn(Config(KeyOnlyRamMode, FileIO, SmallBlock), MaxModeFiles)
    /\ dbFile = NoDBFile
    /\ io = NoIO
    /\ twin = Open(Config(KeyValueRamMode, FileIO, SmallBlock), EmptyDir, NoMetaFile, <<>>, 0).db
    /\ skipList = None

\* The results r and rt of one call on the engine and on its twin become the
\* states of the two.
Both(op, k, v, r, rt) ==
    /\ Within(r.db) /\ Within(rt.db)
    /\ Becomes(r.db)
    /\ twin' = rt.db
    /\ last' = Ret(op, k, v, r.err, rt.err)
    /\ snap' = NoSnap
    /\ UNCHANGED <<now, status, lastSet, inWindow, limit, codecVars, threadVars, skipList>>

BothSet(k, v) ==
    Idle /\ \E r \in {Set(DB, k, v, now)}, rt \in {Set(twin, k, v, now)} :
                Both("Set", k, v, r, rt)

BothStrRem(k) ==
    Idle /\ \E r \in {StrRem(DB, k)}, rt \in {StrRem(twin, k)} :
                Both("StrRem", k, EmptyBytes, r, rt)

\* Reclaim on both, the archived String segments ranged in the same order.
BothReclaim ==
    /\ Idle
    /\ DOMAIN twin.archFiles[String] = DOMAIN archFiles[String]
    /\ \E os \in Orders(DOMAIN archFiles[String]) :
          \E r \in {Reclaim(DB, <<os, <<>>, <<>>, <<>>, <<>>>>, now)},
             rt \in {Reclaim(twin, <<os, <<>>, <<>>, <<>>, <<>>>>, now)} :
                Both("Reclaim", EmptyBytes, EmptyBytes, r, rt)

\* Close and Open of both.
BothRestart ==
    /\ Idle
    /\ \E c \in {Close(DB, <<>>)}, ct \in {Close(twin, <<>>)} :
          \E r \in {Open(config, c.disk, c.metaFile, c.expFile, now)},
             rt \in {Open(twin.config, ct.disk, ct.metaFile, ct.expFile, now)} :
                /\ r.err = "nil" /\ rt.err = "nil"
                /\ Both("Restart", EmptyBytes, EmptyBytes, r, rt)

NextModes ==
    \/ \E k \in Keys, v \in Vals : BothSet(k, v)
    \/ \E k \in Keys : BothStrRem(k)
    \/ BothReclaim
    \/ BothRestart

SpecModes == InitModes /\ [][NextModes]_vars

\* C36: after the same calls, Get(k) returns the same on the engine in
\* KeyOnlyRamMode as on the one in KeyValueRamMode, for every key.
IndexModeEquivalence ==
    \A k \in Keys : Get(DB, k) = Get(twin, k)

-----------------------------------------------------------------------------
(* The metadata file *)

\* C37: after any sequence of Store calls on db.meta, with the stored offsets
\* growing and, after a rotation, shrinking, LoadMeta returns the mapping
\* written by the last Store.
MetaRoundTrip ==
    LoadMeta(metaFile) = metaFile.text

-----------------------------------------------------------------------------
(* SpecExpires: Expire, Persist, the clock and restarts *)

CallPersist(k) ==
    /\ Idle
    /\ Becomes(Persist(DB, k))
    /\ last' = Ret("Persist", k, EmptyBytes, "nil", EmptyBytes)
    /\ snap' = NoSnap
    /\ UNCHANGED <<now, status, lastSet, inWindow, limit, codecVars, twin, skipList, threadVars>>

InitExpires == InitWith(Config(KeyOnlyRamMode, FileIO, SmallBlock), MaxFiles)

NextExpires ==
    \/ \E k \in Keys : CallExpire(k)
    \/ \E k \in Keys : CallPersist(k)
    \/ Tick
    \/ Restart

SpecExpires == InitExpires /\ [][NextExpires]_vars

\* C38: after Close and Open the expiry table holds exactly the deadlines it
\* held at Close, whatever was added to it or removed from it since the Close
\* before.
ExpiresRoundTrip ==
    [][Restart /\ last'.op = "Restart" => expires' = expires]_vars

-----------------------------------------------------------------------------
(* SpecNx: two threads calling SetNx, one step per lock operation and per     *)
(* piece of work between them                                                 *)

MaxNxFiles == 3         \* segment ids of the String kind when SetNx is called

\* SetNx: StrExists (checkKeyValue, RLock, Exist, RUnlock).  When the key is
\* in the index the call returns nil; otherwise it goes on to Set.
SetNxExists(th, k, v) ==
    /\ Open_ /\ pc[th] = "idle" /\ mu.writer = NoThread
    /\ IF checkKeyValue(config, k, <<>>) = "nil" /\ k \in DOMAIN strIndex
       THEN /\ last' = Ret("SetNx", k, v, "nil", EmptyBytes)
            /\ UNCHANGED <<pc, arg>>
       ELSE /\ Goto(th, "SetNx.set")
            /\ arg' = [arg EXCEPT ![th] = [key |-> k, value |-> v]]
            /\ UNCHANGED last
    /\ UNCHANGED <<engineVars, lastSet, inWindow, snap, limit, codecVars, twin, skipList, mu, setMu>>

\* SetNx: the call of Set: checkKeyValue, db.mu.Lock()
SetNxSet(th) ==
    /\ Open_ /\ pc[th] = "SetNx.set" /\ CanLock
    /\ IF checkKeyValue(config, arg[th].key, <<arg[th].value>>) = "nil"
       THEN /\ Lock(th)
            /\ Goto(th, "Set.store")
            /\ UNCHANGED last
       ELSE /\ Goto(th, "idle")
            /\ last' = Ret("SetNx", arg[th].key, arg[th].value,
                           checkKeyValue(config, arg[th].key, <<arg[th].value>>), EmptyBytes)
            /\ UNCHANGED mu
    /\ UNCHANGED <<engineVars, lastSet, inWindow, snap, limit, codecVars, twin, skipList, arg, setMu>>

InitNx == InitWith(Config(KeyOnlyRamMode, FileIO, SmallBlock), MaxNxFiles)

NextNx ==
    \E th \in Threads :
        \/ \E k \in Keys \cup {EmptyBytes}, v \in Vals : SetNxExists(th, k, v)
        \/ SetNxSet(th)
        \/ SetStore(th)
        \/ SetIndex(th)
        \/ \E k \in Keys : StrRemBegin(th, k)
        \/ StrRemStore(th)

SpecNx == InitNx /\ [][NextNx]_vars

\* C39: SetNx never overwrites: the Set a SetNx call goes on to puts its value
\* into the index only when the key is not there, also when another SetNx on
\* the same key runs at the same time.
SetNxNeverOverwrites ==
    [][\A th \in Threads :
          pc[th] = "Set.index" /\ pc'[th] = "idle" => arg[th].key \notin DOMAIN strIndex]_vars

-----------------------------------------------------------------------------
(* index/skiplist.go at pointer level.  An element is a number that is the    *)
(* key of t.elems; NilElement is the nil *Element.  A *Node is ListNode for    *)
(* &t.Node or the number of the element it is part of.  Level i of the code    *)
(* is position i + 1 of a next sequence.                                      *)

MaxLevels == 3          \* t.maxLevel of the lists checked

NilElement == 0
ListNode == 0

\* NewSkipList
NewSkipList ==
    [next |-> [i \in 1..MaxLevels |-> NilElement], maxLevel |-> MaxLevels,
     Len |-> 0, elems |-> <<>>]

\* n.next[i] of a *Node n
NextAt(t, n, i) == IF n = ListNode THEN t.next[i + 1] ELSE t.elems[n].next[i + 1]

\* The inner loop of backNodes and Get at level i, from prev.
RECURSIVE Forward(_, _, _, _)
Forward(t, key, prev, i) ==
    LET next == NextAt(t, prev, i)
    IN IF next # NilElement /\ Compare(key, t.elems[next].key) > 0
       THEN Forward(t, key, next, i)
       ELSE prev

\* The loop with the other comparison.
RECURSIVE ForwardPastEqual(_, _, _, _)
ForwardPastEqual(t, key, prev, i) ==
    LET next == NextAt(t, prev, i)
    IN IF next # NilElement /\ Compare(key, t.elems[next].key) >= 0
       THEN ForwardPastEqual(t, key, next, i)
       ELSE prev

RECURSIVE backNodesPastEqualFrom(_, _, _, _, _)
backNodesPastEqualFrom(t, key, prev, i, prevs) ==
    LET p == ForwardPastEqual(t, key, prev, i)
        filled == [prevs EXCEPT ![i + 1] = p]
    IN IF i = 0 THEN filled ELSE backNodesPastEqualFrom(t, key, p, i - 1, filled)

backNodesPastEqual(t, key) ==
    backNodesPastEqualFrom(t, key, ListNode, t.maxLevel - 1, [i \in 1..t.maxLevel |-> ListNode])

\* The outer loop of backNodes from level i down, prev carried from level to level.
RECURSIVE backNodesFrom(_, _, _, _, _)
backNodesFrom(t, key, prev, i, prevs) ==
    LET p == Forward(t, key, prev, i)
        filled == [prevs EXCEPT ![i + 1] = p]
    IN IF i = 0 THEN filled ELSE backNodesFrom(t, key, p, i - 1, filled)

\* SkipList.backNodes: per level the last node whose key is below key.  Every
\* slot of t.prevNodesCache is written on each call, so the cache carries
\* nothing from one call to the next.
backNodes(t, key) ==
    backNodesFrom(t, key, ListNode, t.maxLevel - 1, [i \in 1..t.maxLevel |-> ListNode])

\* The elements the list node reaches through next pointers of any level.
RECURSIVE ReachedFrom(_, _)
ReachedFrom(t, seen) ==
    LET step == {e2 \in DOMAIN t.elems :
                    \E e \in seen : \E i \in 1..Len(t.elems[e].next) : t.elems[e].next[i] = e2}
    IN IF step \subseteq seen THEN seen ELSE ReachedFrom(t, seen \cup step)

\* What the garbage collector leaves of the elements.
Collected(t) ==
    LET live == ReachedFrom(t, {t.next[i] : i \in 1..t.maxLevel} \ {NilElement})
    IN [t EXCEPT !.elems = [e \in live |-> t.elems[e]]]

\* SkipList.Put; level is what randomLevel returns.  [t, element]
SkipListPut(t, key, value, level) ==
    LET prev == backNodes(t, key)
        element == NextAt(t, prev[1], 0)
    IN IF element # NilElement /\ Compare(t.elems[element].key, key) <= 0
       THEN [t |-> [t EXCEPT !.elems[element].value = value], element |-> element]
       ELSE LET new == MinOf((1..(Cardinality(DOMAIN t.elems) + 1)) \ DOMAIN t.elems)
                node == [next |-> [i \in 1..level |-> NextAt(t, prev[i], i - 1)],
                         key |-> key, value |-> value]
                Linked(n, next) ==
                    [i \in 1..Len(next) |->
                        IF i <= level /\ prev[i] = n THEN new ELSE next[i]]
            IN [t |-> [t EXCEPT
                         !.next = Linked(ListNode, t.next),
                         !.elems = [e \in DOMAIN t.elems \cup {new} |->
                                      IF e = new THEN node
                                      ELSE [t.elems[e] EXCEPT !.next = Linked(e, @)]],
                         !.Len = @ + 1],
                element |-> new]

\* SkipList.Get: the element, or NilElement
SkipListGet(t, key) ==
    LET prev == backNodes(t, key)
        next == NextAt(t, prev[1], 0)
    IN IF next # NilElement /\ Compare(t.elems[next].key, key) <= 0
       THEN next ELSE NilElement

\* SkipList.Remove.  [t, element]
SkipListRemove(t, key) ==
    LET prev == backNodes(t, key)
        element == NextAt(t, prev[1], 0)
    IN IF element # NilElement /\ Compare(t.elems[element].key, key) <= 0
       THEN LET gone == t.elems[element].next
                Unlinked_(n, next) ==
                    [i \in 1..Len(next) |->
                        IF i <= Len(gone) /\ prev[i] = n THEN gone[i] ELSE next[i]]
            IN [t |-> Collected([t EXCEPT
                         !.next = Unlinked_(ListNode, t.next),
                         !.elems = [e \in DOMAIN t.elems |->
                                      [t.elems[e] EXCEPT !.next = Unlinked_(e, @)]],
                         !.Len = @ - 1]),
                element |-> element]
       ELSE [t |-> t, element |-> NilElement]


\* The elements of the bottom level from element e on, at most n of them.
RECURSIVE Chain(_, _, _)
Chain(t, e, n) ==
    IF e = NilElement \/ n = 0 THEN <<>>
    ELSE <<e>> \o Chain(t, t.elems[e].next[1], n - 1)

\* Front and Next until nil; one element more than Len is enough to see a
\* chain that is longer than Len.
Elements(t) == Chain(t, t.next[1], t.Len + 1)

\* Get as a caller sees it: <<>> for nil, else Element.Value in a sequence
ValueOf(t, key) ==
    LET e == SkipListGet(t, key) IN IF e = NilElement THEN <<>> ELSE <<t.elems[e].value>>

-----------------------------------------------------------------------------
(* SpecSkip: one skip list under Put, Get and Remove                          *)

SkipKeys == ScanKeys

InitSkip ==
    /\ OpenedOn(Config(KeyOnlyRamMode, FileIO, SmallBlock), MaxFiles)
    /\ dbFile = NoDBFile
    /\ io = NoIO
    /\ twin = None
    /\ skipList = NewSkipList

Listed(op, key, value, t, val) ==
    /\ skipList' = t
    /\ last' = Ret(op, key, value, "nil", val)
    /\ UNCHANGED <<engineVars, lastSet, inWindow, snap, limit, threadVars, codecVars, twin>>

CallPut(k, v, level) ==
    \E r \in {SkipListPut(skipList, k, v, level)} :
        Listed("Put", k, v, r.t, <<r.t.elems[r.element].value>>)

CallSkipGet(k) == Listed("Get", k, EmptyBytes, skipList, ValueOf(skipList, k))

CallRemove(k) ==
    \E r \in {SkipListRemove(skipList, k)} :
        Listed("Remove", k, EmptyBytes, r.t,
               IF r.element = NilElement THEN <<>> ELSE <<skipList.elems[r.element].value>>)

NextSkip ==
    \/ \E k \in SkipKeys, v \in Vals, level \in 1..MaxLevels : CallPut(k, v, level)
    \/ \E k \in SkipKeys : CallSkipGet(k)
    \/ \E k \in SkipKeys : CallRemove(k)

SpecSkip == InitSkip /\ [][NextSkip]_vars

\* The bottom level holds Len elements in strictly ascending byte order of key.
Ordered(t) ==
    LET es == Elements(t)
    IN /\ Len(es) = t.Len
       /\ \A i \in 1..(Len(es) - 1) : Compare(t.elems[es[i]].key, t.elems[es[i + 1]].key) < 0

\* What a call leaves of Get and Len: Put(k, v) makes Get(k) return v, adds one
\* to Len when k was absent and leaves Len alone when it was present;
\* Remove(k) makes Get(k) return nil and takes one from Len when k was
\* present; Get of every other key is as before.
Kept(t, op, key, value, t2) ==
    /\ \A k \in SkipKeys \ {key} : ValueOf(t2, k) = ValueOf(t, k)
    /\ op = "Put" =>
          /\ ValueOf(t2, key) = <<value>>
          /\ t2.Len = IF ValueOf(t, key) = <<>> THEN t.Len + 1 ELSE t.Len
    /\ op = "Remove" =>
          /\ ValueOf(t2, key) = <<>>
          /\ t2.Len = IF ValueOf(t, key) = <<>> THEN t.Len ELSE t.Len - 1
    /\ op = "Get" => t2 = t

\* C40: Ordered-index invariant: after any sequence of Put and Remove the
\* bottom-level chain holds each key at most once in strictly ascending byte
\* order and Len is the number of its elements; Get(k) returns the value of the
\* last Put(k) not followed by Remove(k) (nothing is returned before the first
\* Put, and each call changes Get as described under Kept); Put on a key that is
\* present replaces the value and leaves Len as it was.
OrderedIndex ==
    /\ last.op = "Open" => \A k \in SkipKeys : ValueOf(skipList, k) = <<>>
    /\ [](Ordered(skipList))
    /\ [][Kept(skipList, last'.op, last'.key, last'.value, skipList')]_vars

\* A Remove has left two elements, one of them on every level, and a key that
\* is a prefix of its successor.
OrderedIndexWitness ==
    /\ last.op = "Remove" /\ last.val # <<>>
    /\ skipList.Len = 2
    /\ \E e \in DOMAIN skipList.elems : Len(skipList.elems[e].next) = MaxLevels
    /\ ValueOf(skipList, KeyA) = <<Val2>> /\ ValueOf(skipList, KeyAB) = <<Val1>>

====
